---- MODULE Spec2Model ----
(***************************************************************************)
(* OCR autopilot core of markdown_web_browser.                             *)
(*                                                                         *)
(*   app/ocr_policy.py   select_ocr_backend, should_reevaluate_policy      *)
(*   app/local_ocr.py    LocalOCRServiceManager                            *)
(*                                                                         *)
(*   app/ocr_client.py   submit_tiles and its helpers                      *)
(*                                                                         *)
(* The specifications of the module:                                       *)
(*   SpecSelect  the pure selector applied to bounded candidate tuples     *)
(*   SpecReeval  should_reevaluate_policy threaded through its own state   *)
(*   SpecLocal   concurrent ensure_service calls, shutdown and children    *)
(*   SpecNorm    the local endpoint normalizer applied twice               *)
(*   SpecGroup   the batch grouper applied to bounded tile sequences       *)
(*   SpecQuota   record and reset calls on the quota tracker over days      *)
(*   SpecBatch   one batch through the retry loop of _submit_batch         *)
(*   SpecSubmit  submit_tiles with concurrent batch tasks                  *)
(*   SpecHeaders submit_tiles under every api_key, local_url, server_url    *)
(*   SpecFailover the failover executor over the circuit breakers          *)
(*   SpecAutotune the adaptive concurrency controller over completions     *)
(*   SpecExtract  _extract_markdown_batch over response bodies             *)
(*   SpecBreaker  one circuit breaker under a clock                        *)
(*   SpecReevalSoft  SpecReeval without hard-failure signals               *)
(*   SpecLocalFair   SpecLocal under the scheduling of the event loop      *)
(***************************************************************************)
EXTENDS Integers, Sequences, FiniteSets, TLC

VARIABLES
    candidates,     \* OCRPolicyInputs.candidates handed to select_ocr_backend
    decision,       \* what select_ocr_backend returned for it
    now,            \* the caller's clock, in ticks of 1/TicksPerSecond s
    hysteresis,     \* the OCRHysteresisSettings the caller passes
    rt_state,       \* the OCRPolicyRuntimeState the caller threads through
    reeval,         \* the last should_reevaluate_policy call and its result
    switched,       \* when the caller's calls were last approved (history)
    mgr,            \* LocalOCRServiceManager: _process, _endpoint, the counters
    lock,           \* LocalOCRServiceManager._lock: its holder, or "free"
    children,       \* every child process the manager can spawn, and its state
    call,           \* per task: its ensure_service call, position and locals
    nz,             \* a run of the local endpoint normalizer: input and results
    grp,            \* a run of the batch grouper: tiles, limits and groups
    qt,             \* the quota tracker, the day of the clock, the statuses it returned
    sub,            \* a submit_tiles call: settings, batches, semaphore, tasks, results
    fo,             \* the failover executor: decision, batch walks, event log, breakers
    at,             \* the adaptive concurrency controller: limits, peak, adjustment events
    ex,             \* _extract_markdown_batch: response, tile count and result
    cb              \* one circuit breaker under a clock: entry, open_until, cooldown, history

policy_vars == <<candidates, decision>>

reeval_vars == <<now, hysteresis, rt_state, reeval, switched>>

local_vars == <<mgr, lock, children, call>>

norm_vars == <<nz>>

group_vars == <<grp>>

quota_vars == <<qt>>

submit_vars == <<sub>>

failover_vars == <<fo>>

autotune_vars == <<at>>

extract_vars == <<ex>>

breaker_vars == <<cb>>

vars == <<candidates, decision, now, hysteresis, rt_state, reeval, switched,
          mgr, lock, children, call, nz, grp, qt, sub, fo, at, ex, cb>>

\* What the actions of one specification leave alone: the variables of the
\* others.
outside_select == <<reeval_vars, local_vars, norm_vars, group_vars, quota_vars, submit_vars, failover_vars, autotune_vars, extract_vars, breaker_vars>>

outside_reeval == <<policy_vars, local_vars, norm_vars, group_vars, quota_vars, submit_vars, failover_vars, autotune_vars, extract_vars, breaker_vars>>

outside_local == <<policy_vars, reeval_vars, norm_vars, group_vars, quota_vars, submit_vars, failover_vars, autotune_vars, extract_vars, breaker_vars>>

outside_norm == <<policy_vars, reeval_vars, local_vars, group_vars, quota_vars, submit_vars, failover_vars, autotune_vars, extract_vars, breaker_vars>>

outside_group == <<policy_vars, reeval_vars, local_vars, norm_vars, quota_vars, submit_vars, failover_vars, autotune_vars, extract_vars, breaker_vars>>

outside_quota == <<policy_vars, reeval_vars, local_vars, norm_vars, group_vars, submit_vars, failover_vars, autotune_vars, extract_vars, breaker_vars>>

outside_submit == <<policy_vars, reeval_vars, local_vars, norm_vars, group_vars, failover_vars, autotune_vars, extract_vars, breaker_vars>>

outside_failover == <<policy_vars, reeval_vars, local_vars, norm_vars, group_vars, quota_vars, submit_vars, autotune_vars, extract_vars, breaker_vars>>

outside_autotune == <<policy_vars, reeval_vars, local_vars, norm_vars, group_vars, quota_vars, submit_vars, failover_vars, extract_vars, breaker_vars>>

outside_extract == <<policy_vars, reeval_vars, local_vars, norm_vars, group_vars, quota_vars, submit_vars, failover_vars, autotune_vars, breaker_vars>>

outside_breaker == <<policy_vars, reeval_vars, local_vars, norm_vars, group_vars, quota_vars, submit_vars, failover_vars, autotune_vars, extract_vars>>

(***************************************************************************)
(* Bounds of the model.                                                    *)
(***************************************************************************)
MaxCandidates == 3

\* Timestamps are floats in the code: the clock counts fractions of a second.
TicksPerSecond == 2
MaxTime == 5            \* last tick of the clock
MaxSwitches == 3        \* longest switch history kept
MaxSuppressions == 2    \* largest suppression_count reached

\* The non-zero hysteresis values tried (the defaults are 45 s, 180 s, 3).
CooldownSeconds == 2
FlapWindowSeconds == 2
FlapThreshold == 2

MaxRestarts == 1        \* largest ocr.local_max_restarts tried
MaxChildren == 2        \* child processes that can be spawned in a run
MaxLaunches == 2        \* largest _launch_attempts reached

MaxPathLen == 3         \* most segments in the path of a url
MaxTiles == 3           \* most tiles handed to the batch grouper
MaxBatchBytes == 9      \* largest max_batch_bytes tried
MaxQuota == 4           \* largest ocr.daily_quota_tiles tried
MaxUsed == 6            \* largest daily tile count reached
MaxDays == 2            \* days the clock goes through
MaxRequests == 3        \* most requests of a submit_tiles call
MaxConcurrency == 2     \* largest ocr.max_concurrency, ocr.min_concurrency tried
MaxFailoverBatches == 1 \* most batches of a submission the failover executor walks
MaxSubmissions == 3     \* submit_tiles calls in a row over the same breakers
MaxLimit == 4           \* largest concurrency limit of the adaptive controller
MaxCompletions == 4     \* batch completions a controller sees
MaxEntries == 2         \* longest results or data list of a response
MaxBreakerTime == 14    \* last tick of the breaker's clock

(***************************************************************************)
(* app/ocr_policy.py: constants.                                           *)
(***************************************************************************)
BACKEND_MODE_OPENAI_COMPATIBLE == "openai-compatible"
BACKEND_MODE_MAAS == "maas"

REASON_LOCAL_GPU_PREFERRED == "policy.local.gpu-preferred"
REASON_LOCAL_CPU_FALLBACK == "policy.local.cpu-fallback"
REASON_REMOTE_FALLBACK == "policy.remote.fallback"
REASON_SKIP_UNHEALTHY == "policy.skip.unhealthy"
REASON_REEVAL_TIMER == "policy.reeval.timer"
REASON_REEVAL_FAILURE == "policy.reeval.failure"
REASON_REEVAL_RECOVERED == "policy.reeval.recovered"
REASON_REEVAL_LATENCY == "policy.reeval.latency"
REASON_REEVAL_NOT_REQUIRED == "policy.reeval.not-required"
REASON_REEVAL_SUPPRESSED_COOLDOWN == "policy.reeval.suppressed.cooldown"
REASON_REEVAL_SUPPRESSED_FLAPPING == "policy.reeval.suppressed.flapping"

\* The three path reasons, one per hardware path.
PathReasons ==
    {REASON_LOCAL_GPU_PREFERRED, REASON_LOCAL_CPU_FALLBACK, REASON_REMOTE_FALLBACK}

\* The closed reason-code set of the policy engine.
PolicyReasonCodes ==
    PathReasons \cup
    {REASON_SKIP_UNHEALTHY, REASON_REEVAL_TIMER, REASON_REEVAL_FAILURE,
     REASON_REEVAL_RECOVERED, REASON_REEVAL_LATENCY, REASON_REEVAL_NOT_REQUIRED,
     REASON_REEVAL_SUPPRESSED_COOLDOWN, REASON_REEVAL_SUPPRESSED_FLAPPING}

(***************************************************************************)
(* OCRBackendCandidate.  healthy is bool | None: "True", "False", "None".  *)
(* The identities are those the tests build; the local backend appears     *)
(* with either hardware path, so a tuple may repeat a backend_id.          *)
(***************************************************************************)
HealthValues == {"True", "False", "None"}

BackendKinds ==
    { [backend_id |-> "glm-ocr-local-openai",
       backend_mode |-> BACKEND_MODE_OPENAI_COMPATIBLE, hardware_path |-> "gpu"],
      [backend_id |-> "glm-ocr-local-openai",
       backend_mode |-> BACKEND_MODE_OPENAI_COMPATIBLE, hardware_path |-> "cpu"],
      [backend_id |-> "glm-ocr-remote-openai",
       backend_mode |-> BACKEND_MODE_OPENAI_COMPATIBLE, hardware_path |-> "remote"],
      [backend_id |-> "glm-ocr-maas",
       backend_mode |-> BACKEND_MODE_MAAS, hardware_path |-> "remote"] }

OCRBackendCandidate ==
    { [backend_id |-> k.backend_id, backend_mode |-> k.backend_mode,
       hardware_path |-> k.hardware_path, healthy |-> h] :
        k \in BackendKinds, h \in HealthValues }

CandidateTuples ==
    UNION { [1..n -> OCRBackendCandidate] : n \in 0..MaxCandidates }

\* OCRPolicyDecision, with the outcome of the call beside it:
\* "none" before the call, "ok" on return, "ValueError" when it raised.
NoDecision ==
    [status |-> "none", backend_id |-> "", backend_mode |-> "", hardware_path |-> "",
     fallback_chain |-> <<>>, reason_codes |-> <<>>, reevaluate_after_s |-> 0]

(***************************************************************************)
(* select_ocr_backend                                                      *)
(***************************************************************************)
\* Mutant: only healthy=True qualifies, unknown health is skipped too.
RECURSIVE ScanCandidates_SkipUnknown(_, _, _)
ScanCandidates_SkipUnknown(cands, i, reasons) ==
    IF i > Len(cands)
    THEN [selected |-> 0, reason_codes |-> reasons]
    ELSE IF cands[i].healthy # "True"
         THEN ScanCandidates_SkipUnknown(cands, i + 1,
                                         Append(reasons, REASON_SKIP_UNHEALTHY))
         ELSE [selected |-> i, reason_codes |-> reasons]

\* The for loop: skip every healthy=False candidate, recording a skip reason
\* for each, and stop at the first other one.  selected = 0 is `None`.
RECURSIVE ScanCandidates(_, _, _)
ScanCandidates(cands, i, reasons) ==
    IF i > Len(cands)
    THEN [selected |-> 0, reason_codes |-> reasons]
    ELSE IF cands[i].healthy = "False"
         THEN ScanCandidates(cands, i + 1, Append(reasons, REASON_SKIP_UNHEALTHY))
         ELSE [selected |-> i, reason_codes |-> reasons]

\* Mutant: the cpu branch is missing, a cpu selection reports the remote reason.
PathReason_NoCpu(hardware_path) ==
    IF hardware_path = "gpu" THEN REASON_LOCAL_GPU_PREFERRED
    ELSE REASON_REMOTE_FALLBACK

PathReason(hardware_path) ==
    IF hardware_path = "gpu" THEN REASON_LOCAL_GPU_PREFERRED
    ELSE IF hardware_path = "cpu" THEN REASON_LOCAL_CPU_FALLBACK
    ELSE REASON_REMOTE_FALLBACK

\* Mutant: the chain keeps only the candidates after the selected one.
FallbackChain_AfterSelected(cands, sel) ==
    LET ids == [i \in 1..Len(cands) |-> cands[i].backend_id]
    IN  SubSeq(ids, sel + 1, Len(cands))

\* tuple(c.backend_id for c in candidates if c.backend_id != selected.backend_id)
FallbackChain(cands, sel) ==
    LET ids == [i \in 1..Len(cands) |-> cands[i].backend_id]
        differs(id) == id # cands[sel].backend_id
    IN  SelectSeq(ids, differs)

ReevaluateAfter(hardware_path) ==
    IF hardware_path # "gpu" THEN 30 ELSE 120

select_ocr_backend(cands) ==
    IF Len(cands) = 0
    THEN [NoDecision EXCEPT !.status = "ValueError"]
    ELSE
        LET scan == ScanCandidates(cands, 1, <<>>)
            sel == IF scan.selected = 0 THEN 1 ELSE scan.selected
            skipped == IF scan.selected = 0
                       THEN Append(scan.reason_codes, REASON_SKIP_UNHEALTHY)
                       ELSE scan.reason_codes
        IN  [status |-> "ok",
             backend_id |-> cands[sel].backend_id,
             backend_mode |-> cands[sel].backend_mode,
             hardware_path |-> cands[sel].hardware_path,
             fallback_chain |-> FallbackChain(cands, sel),
             reason_codes |-> Append(skipped, PathReason(cands[sel].hardware_path)),
             reevaluate_after_s |-> ReevaluateAfter(cands[sel].hardware_path)]

(***************************************************************************)
(* should_reevaluate_policy and its helpers.                               *)
(* A timestamp is a number of ticks; None is NoTs.  cooldown_seconds and   *)
(* flap_window_seconds are whole seconds, as in OCRHysteresisSettings.     *)
(***************************************************************************)
NoTs == -1          \* last_switch_ts = None
NoneInt == -1       \* cooldown_remaining_s = None

OCRRuntimeSignal ==
    {"request_failed", "backend_unhealthy", "backend_recovered",
     "latency_spike", "periodic_timer", "no_change"}

HardwarePaths == {"gpu", "cpu", "remote"}

\* OCRPolicyRuntimeState()
EmptyRuntimeState ==
    [last_switch_ts |-> NoTs, switch_timestamps |-> <<>>, suppression_count |-> 0,
     cooldown_suppression_count |-> 0, flap_suppression_count |-> 0]

HysteresisChoices ==
    [cooldown_seconds : {0, CooldownSeconds},
     flap_window_seconds : {0, FlapWindowSeconds},
     flap_threshold : {0, FlapThreshold}]

\* context=None
NoContext ==
    [present |-> FALSE, now_ts |-> 0, state |-> EmptyRuntimeState,
     hysteresis |-> [cooldown_seconds |-> 0, flap_window_seconds |-> 0,
                     flap_threshold |-> 0]]

\* int(x) of a float x = n / TicksPerSecond: truncation toward zero.
IntOfTicks(n) ==
    IF n >= 0 THEN n \div TicksPerSecond ELSE -((-n) \div TicksPerSecond)

MaxOf(a, b) == IF a >= b THEN a ELSE b

\* Mutant: the signal set of the hard-failure test lacks backend_unhealthy.
HardFailureSignals_RequestOnly == {"request_failed"}

\* The set tested by `hard_failure = signal in {...}`.
HardFailureSignals == {"request_failed", "backend_unhealthy"}

\* Mutant: a latency spike asks for re-evaluation on every hardware path.
base_reevaluation_reason_AnyPath(signal, dec) ==
    IF signal \in {"request_failed", "backend_unhealthy"}
    THEN [reason |-> REASON_REEVAL_FAILURE, should |-> TRUE]
    ELSE IF signal = "backend_recovered"
    THEN [reason |-> REASON_REEVAL_RECOVERED, should |-> TRUE]
    ELSE IF signal = "latency_spike"
    THEN [reason |-> REASON_REEVAL_LATENCY, should |-> TRUE]
    ELSE IF signal = "periodic_timer"
    THEN [reason |-> REASON_REEVAL_TIMER, should |-> TRUE]
    ELSE [reason |-> REASON_REEVAL_NOT_REQUIRED, should |-> FALSE]

\* (reason, should) of _base_reevaluation_reason.
base_reevaluation_reason(signal, dec) ==
    IF signal \in {"request_failed", "backend_unhealthy"}
    THEN [reason |-> REASON_REEVAL_FAILURE, should |-> TRUE]
    ELSE IF signal = "backend_recovered"
    THEN [reason |-> REASON_REEVAL_RECOVERED, should |-> TRUE]
    ELSE IF signal = "latency_spike" /\ dec.hardware_path # "gpu"
    THEN [reason |-> REASON_REEVAL_LATENCY, should |-> TRUE]
    ELSE IF signal = "periodic_timer"
    THEN [reason |-> REASON_REEVAL_TIMER, should |-> TRUE]
    ELSE [reason |-> REASON_REEVAL_NOT_REQUIRED, should |-> FALSE]

\* Mutant: an entry exactly flap_window_seconds old is dropped as well.
prune_runtime_state_Strict(state, now_ts, flap_window_seconds) ==
    IF flap_window_seconds <= 0 \/ Len(state.switch_timestamps) = 0
    THEN state
    ELSE LET cutoff == now_ts - flap_window_seconds * TicksPerSecond
             inside(ts) == ts > cutoff
         IN  [state EXCEPT !.switch_timestamps = SelectSeq(@, inside)]

prune_runtime_state(state, now_ts, flap_window_seconds) ==
    IF flap_window_seconds <= 0 \/ Len(state.switch_timestamps) = 0
    THEN state
    ELSE LET cutoff == now_ts - flap_window_seconds * TicksPerSecond
             inside(ts) == ts >= cutoff
         IN  [state EXCEPT !.switch_timestamps = SelectSeq(@, inside)]

\* Mutant: the timestamp is added but last_switch_ts is left as it was.
record_switch_WithoutLast(state, now_ts, flap_window_seconds) ==
    LET next_state == prune_runtime_state(state, now_ts, flap_window_seconds)
    IN  [next_state EXCEPT
            !.switch_timestamps = Append(next_state.switch_timestamps, now_ts)]

record_switch(state, now_ts, flap_window_seconds) ==
    LET next_state == prune_runtime_state(state, now_ts, flap_window_seconds)
    IN  [next_state EXCEPT
            !.last_switch_ts = now_ts,
            !.switch_timestamps = Append(next_state.switch_timestamps, now_ts)]

\* Mutant: only the total is counted.
record_suppression_TotalOnly(state, cooldown, flap) ==
    [state EXCEPT !.suppression_count = @ + 1]

record_suppression(state, cooldown, flap) ==
    [state EXCEPT
        !.suppression_count = @ + 1,
        !.cooldown_suppression_count = @ + (IF cooldown THEN 1 ELSE 0),
        !.flap_suppression_count = @ + (IF flap THEN 1 ELSE 0)]

\* Mutant: the max(1, ...) clamp is missing.
cooldown_remaining_seconds_NoClamp(state, now_ts, cooldown_seconds) ==
    IF cooldown_seconds <= 0 THEN NoneInt
    ELSE IF state.last_switch_ts = NoTs THEN NoneInt
    ELSE LET elapsed == now_ts - state.last_switch_ts
         IN  IF elapsed >= cooldown_seconds * TicksPerSecond THEN NoneInt
             ELSE IntOfTicks(cooldown_seconds * TicksPerSecond - elapsed)

\* Mutant: the cooldown is over after half of cooldown_seconds.
cooldown_remaining_seconds_Early(state, now_ts, cooldown_seconds) ==
    IF cooldown_seconds <= 0 THEN NoneInt
    ELSE IF state.last_switch_ts = NoTs THEN NoneInt
    ELSE LET elapsed == now_ts - state.last_switch_ts
         IN  IF 2 * elapsed >= cooldown_seconds * TicksPerSecond THEN NoneInt
             ELSE MaxOf(1, IntOfTicks(cooldown_seconds * TicksPerSecond - elapsed))

cooldown_remaining_seconds(state, now_ts, cooldown_seconds) ==
    IF cooldown_seconds <= 0 THEN NoneInt
    ELSE IF state.last_switch_ts = NoTs THEN NoneInt
    ELSE LET elapsed == now_ts - state.last_switch_ts
         IN  IF elapsed >= cooldown_seconds * TicksPerSecond THEN NoneInt
             ELSE MaxOf(1, IntOfTicks(cooldown_seconds * TicksPerSecond - elapsed))

\* Mutant: the limit is hit only above the threshold.
FlapLimitHit_Above(hyst, flap_window_count) ==
    hyst.flap_threshold > 0 /\ flap_window_count > hyst.flap_threshold

\* flap_limit_hit
FlapLimitHit(hyst, flap_window_count) ==
    hyst.flap_threshold > 0 /\ flap_window_count >= hyst.flap_threshold

\* OCRReevaluationDecision(should, reason, state=..., defaults for the rest)
ReevaluationDecision(should, reason, state) ==
    [should_reevaluate |-> should, reason_code |-> reason, state |-> state,
     cooldown_remaining_s |-> NoneInt, flap_window_count |-> 0,
     hard_failure_bypass |-> FALSE]

should_reevaluate_policy(signal, dec, context) ==
    LET base == base_reevaluation_reason(signal, dec)
    IN
    IF ~context.present
    THEN IF ~base.should
         THEN ReevaluationDecision(FALSE, REASON_REEVAL_NOT_REQUIRED, EmptyRuntimeState)
         ELSE ReevaluationDecision(TRUE, base.reason, EmptyRuntimeState)
    ELSE
    LET hyst == context.hysteresis
        state == prune_runtime_state(context.state, context.now_ts,
                                     hyst.flap_window_seconds)
    IN
    IF ~base.should
    THEN ReevaluationDecision(FALSE, REASON_REEVAL_NOT_REQUIRED, state)
    ELSE
    LET hard_failure == signal \in HardFailureSignals
        flap_window_count == Len(state.switch_timestamps)
        cooldown_remaining ==
            cooldown_remaining_seconds(state, context.now_ts, hyst.cooldown_seconds)
        flap_limit_hit == FlapLimitHit(hyst, flap_window_count)
    IN
    IF hard_failure
    THEN [ReevaluationDecision(TRUE, REASON_REEVAL_FAILURE,
              record_switch(state, context.now_ts, hyst.flap_window_seconds))
          EXCEPT !.flap_window_count = flap_window_count,
                 !.hard_failure_bypass =
                     (cooldown_remaining # NoneInt \/ flap_limit_hit)]
    ELSE IF cooldown_remaining # NoneInt
    THEN [ReevaluationDecision(FALSE, REASON_REEVAL_SUPPRESSED_COOLDOWN,
              record_suppression(state, TRUE, FALSE))
          EXCEPT !.cooldown_remaining_s = cooldown_remaining,
                 !.flap_window_count = flap_window_count]
    ELSE IF flap_limit_hit
    THEN [ReevaluationDecision(FALSE, REASON_REEVAL_SUPPRESSED_FLAPPING,
              record_suppression(state, FALSE, TRUE))
          EXCEPT !.flap_window_count = flap_window_count]
    ELSE [ReevaluationDecision(TRUE, base.reason,
              record_switch(state, context.now_ts, hyst.flap_window_seconds))
          EXCEPT !.flap_window_count = flap_window_count]

(***************************************************************************)
(* SpecReeval: a caller that keeps one runtime state, reads its clock and  *)
(* calls should_reevaluate_policy with any signal, threading the returned  *)
(* state into the next call.  A call without context threads nothing.      *)
(* reeval holds a call and its result until the caller has taken it.       *)
(***************************************************************************)
NoCall ==
    [called |-> FALSE, signal |-> "no_change", hardware_path |-> "gpu",
     context |-> NoContext,
     result |-> ReevaluationDecision(FALSE, REASON_REEVAL_NOT_REQUIRED,
                                     EmptyRuntimeState)]

\* The decision in force: only its hardware_path is read.
DecisionOn(hardware_path) ==
    [NoDecision EXCEPT !.status = "ok", !.hardware_path = hardware_path]

\* The approvals of the calls with a context so far: last is the time of
\* the latest one, soft that of the latest one of a signal that is not a
\* hard failure, prev_soft is soft as it was before the call in reeval.
NoSwitches == [last |-> NoTs, soft |-> NoTs, prev_soft |-> NoTs]

Approved(history, signal, result, now_ts) ==
    [last |-> IF result.should_reevaluate THEN now_ts ELSE history.last,
     soft |-> IF result.should_reevaluate /\ signal \notin HardFailureSignals
              THEN now_ts ELSE history.soft,
     prev_soft |-> history.soft]

ReevalStart ==
    /\ now = 0
    /\ hysteresis \in HysteresisChoices
    /\ rt_state = EmptyRuntimeState
    /\ reeval = NoCall
    /\ switched = NoSwitches

Tick ==
    /\ ~reeval.called
    /\ now < MaxTime
    /\ now' = now + 1
    /\ UNCHANGED <<hysteresis, rt_state, reeval, switched, outside_reeval>>

\* The caller has taken the result of the last call.
TakeResult ==
    /\ reeval.called
    /\ reeval' = NoCall
    /\ switched' = [switched EXCEPT !.prev_soft = switched.soft]
    /\ UNCHANGED <<now, hysteresis, rt_state, outside_reeval>>

Reevaluate(signal, hardware_path) ==
    LET context == [present |-> TRUE, now_ts |-> now, state |-> rt_state,
                    hysteresis |-> hysteresis]
        result == should_reevaluate_policy(signal, DecisionOn(hardware_path), context)
    IN  /\ ~reeval.called
        /\ Len(result.state.switch_timestamps) <= MaxSwitches
        /\ result.state.suppression_count <= MaxSuppressions
        /\ rt_state' = result.state
        /\ reeval' = [called |-> TRUE, signal |-> signal,
                      hardware_path |-> hardware_path,
                      context |-> context, result |-> result]
        /\ switched' = Approved(switched, signal, result, now)
        /\ UNCHANGED <<now, hysteresis, outside_reeval>>

ReevaluateNoContext(signal, hardware_path) ==
    /\ ~reeval.called
    /\ reeval' = [called |-> TRUE, signal |-> signal,
                  hardware_path |-> hardware_path, context |-> NoContext,
                  result |-> should_reevaluate_policy(
                                 signal, DecisionOn(hardware_path), NoContext)]
    /\ UNCHANGED <<now, hysteresis, rt_state, switched, outside_reeval>>

NextReeval ==
    \/ Tick
    \/ TakeResult
    \/ \E signal \in OCRRuntimeSignal, hardware_path \in HardwarePaths :
           Reevaluate(signal, hardware_path)
    \/ \E signal \in OCRRuntimeSignal, hardware_path \in HardwarePaths :
           ReevaluateNoContext(signal, hardware_path)

\* The calls of a caller whose signals are never hard failures.
SoftSignals == OCRRuntimeSignal \ HardFailureSignals

NextReevalSoft ==
    \/ Tick
    \/ TakeResult
    \/ \E signal \in SoftSignals, hardware_path \in HardwarePaths :
           Reevaluate(signal, hardware_path)
    \/ \E signal \in SoftSignals, hardware_path \in HardwarePaths :
           ReevaluateNoContext(signal, hardware_path)

(***************************************************************************)
(* app/local_ocr.py: LocalOCRServiceManager.                               *)
(*                                                                         *)
(* ensure_service is a coroutine: what runs between two awaits is one      *)
(* step.  Its awaits are the two health probes, the lock, the off-thread   *)
(* _terminate_process calls, and in _wait_until_ready the probe and the    *)
(* one-second sleep.  The probes, Popen, the startup deadline, the exit of *)
(* a child and what terminate/kill/wait do are the environment's choice.   *)
(* The launch-plan fields of the status (command, model, hardware path)    *)
(* are copied through by the code and are left out.                        *)
(***************************************************************************)
Callers == {"t1", "t2"}

NoPid == 0          \* no process: _process = None, pid = None

Pids == 1..MaxChildren

\* ocr.local_url values: not configured, rejected by _normalize_endpoint,
\* and two accepted ones.
LocalUrls ==
    {"", "ftp://127.0.0.1:8001/v1", "http:///v1", "http://127.0.0.1:8001/v1",
     "http://127.0.0.1:8002/v1"}

\* The ocr settings ensure_service reads.  local_autostart and
\* local_max_restarts vary where the code reads them: the first with an
\* accepted local_url, the second with autostart on.  Children are started
\* for the first accepted url; the second one is only probed.
SettingsChoices ==
    { cfg \in [local_url : LocalUrls, local_autostart : BOOLEAN,
               local_max_restarts : 0..MaxRestarts] :
        /\ cfg.local_url # "http://127.0.0.1:8001/v1" => ~cfg.local_autostart
        /\ ~cfg.local_autostart => cfg.local_max_restarts = 0 }

\* _normalize_endpoint on LocalUrls: [ok, value], value the endpoint or the
\* message of the ValueError.
NormalizedEndpoint(local_url) ==
    IF local_url = "ftp://127.0.0.1:8001/v1"
    THEN [ok |-> FALSE, value |-> "local-url-scheme"]
    ELSE IF local_url = "http:///v1"
    THEN [ok |-> FALSE, value |-> "local-url-netloc"]
    ELSE [ok |-> TRUE, value |-> local_url]

\* f"invalid-local-url:{exc}"
InvalidLocalUrlReason(message) ==
    IF message = "local-url-scheme" THEN "invalid-local-url:local-url-scheme"
    ELSE "invalid-local-url:local-url-netloc"

_DEFAULT_LOCAL_ENDPOINT == "http://127.0.0.1:8001/v1"

\* LocalOCRServiceStatus; action "none" while the call runs and "raised"
\* when ensure_service ended with an exception.
LocalOCRServiceStatus(enabled, endpoint, healthy, action, reason) ==
    [enabled |-> enabled, endpoint |-> endpoint, healthy |-> healthy,
     action |-> action, reason |-> reason, managed |-> FALSE, pid |-> NoPid,
     launch_attempts |-> 0, restart_count |-> 0]

NoStatus == LocalOCRServiceStatus(FALSE, "", FALSE, "none", "")

\* LocalOCRServiceManager.__init__
NewManager ==
    [process |-> NoPid, endpoint |-> "", launch_attempts |-> 0, restart_count |-> 0]

\* A task that has not called ensure_service.  spawned, timeouts,
\* terminated (the _terminate_process calls it made), fresh, ready_idx,
\* probed (the last answer to its probes of the endpoint before the start
\* loop), restarts_before and launches_before (restart_count and
\* launch_attempts when the start loop began), first_probe (the answer to
\* the lock-free probe) and locked (the call has acquired the lock)
\* record the history of the call for the properties.
IdleCall ==
    [pc |-> "idle",
     cfg |-> [local_url |-> "", local_autostart |-> FALSE, local_max_restarts |-> 0],
     endpoint |-> "", process |-> NoPid, attempt_idx |-> 0, max_attempts |-> 0,
     status |-> NoStatus,
     spawned |-> 0, timeouts |-> 0, terminated |-> 0, fresh |-> FALSE,
     ready_idx |-> -1, probed |-> "none", restarts_before |-> 0,
     launches_before |-> 0, first_probe |-> "none", locked |-> FALSE]

\* process.poll() is None
Alive(kids, pid) == pid # NoPid /\ kids[pid] = "alive"

\* Mutant: the handle is returned without polling it.
current_process_NoPoll(m, kids) == m.process

\* LocalOCRServiceManager.current_process
current_process(m, kids) ==
    IF m.process = NoPid THEN NoPid
    ELSE IF ~Alive(kids, m.process) THEN NoPid
    ELSE m.process

\* The pid Popen gives the next child.
NextPid(kids) ==
    IF \E p \in Pids : kids[p] = "unborn"
    THEN CHOOSE p \in Pids : kids[p] = "unborn" /\ \A q \in Pids : q < p => kids[q] # "unborn"
    ELSE NoPid

\* Mutant: managed whenever a live child is held, whatever its endpoint.
ReusedStatus_AnyEndpoint(m, kids, endpoint) ==
    LET pid == IF Alive(kids, m.process) THEN m.process ELSE NoPid
    IN  [LocalOCRServiceStatus(TRUE, endpoint, TRUE, "reused", "service-healthy")
         EXCEPT !.managed = (pid # NoPid),
                !.pid = pid,
                !.launch_attempts = m.launch_attempts,
                !.restart_count = m.restart_count]

\* The status of a healthy probe: action reused.
ReusedStatus(m, kids, endpoint) ==
    LET pid == IF Alive(kids, m.process) THEN m.process ELSE NoPid
    IN  [LocalOCRServiceStatus(TRUE, endpoint, TRUE, "reused", "service-healthy")
         EXCEPT !.managed = (pid # NoPid /\ m.endpoint = endpoint),
                !.pid = pid,
                !.launch_attempts = m.launch_attempts,
                !.restart_count = m.restart_count]

\* What _terminate_process can do to a process: "returned" when it has
\* exited already; else it exits after terminate or kill ("exited"),
\* terminate raises OSError, which is caught, and it lives on ("oserror"),
\* or, after the first wait timed out, kill raises OSError or the second
\* wait times out, and the exception leaves the function ("raised").
TerminateOutcomes(kids, pid) ==
    IF ~Alive(kids, pid) THEN {"returned"} ELSE {"exited", "oserror", "raised"}

AfterTerminate(kids, pid, outcome) ==
    IF outcome = "exited" THEN [kids EXCEPT ![pid] = "exited"] ELSE kids

\* Mutant: the handle and the endpoint are kept.
ClearHandle_Kept(m) == m

\* self._process = None; self._endpoint = None
ClearHandle(m) == [m EXCEPT !.process = NoPid, !.endpoint = ""]

\* Mutant: the first attempt that follows a restart is still "started".
StartedAction_LateRestart(attempt_idx) ==
    IF attempt_idx <= 1 THEN "started" ELSE "restarted"

\* action = "started" if attempt_idx == 0 else "restarted"
StartedAction(attempt_idx) ==
    IF attempt_idx = 0 THEN "started" ELSE "restarted"

\* max_attempts = max(1, cfg.ocr.local_max_restarts + 1)
MaxAttempts(cfg) == MaxOf(1, cfg.local_max_restarts + 1)

\* The call of task c ends: with a status, or with the exception that left
\* _terminate_process.  `async with` gives the lock back either way.
Finish(cr, status) == [cr EXCEPT !.pc = "done", !.status = status]

Raised(cr) ==
    Finish(cr, LocalOCRServiceStatus(TRUE, cr.endpoint, FALSE, "raised", "terminate"))

\* The exceptions of Popen that the start loop catches, by class name.
SpawnErrors == {"FileNotFoundError", "OSError"}

\* f"spawn-failed:{exc.__class__.__name__}"
SpawnFailedReason(exc) == "spawn-failed:" \o exc

SpawnFailedReasons == {SpawnFailedReason(exc) : exc \in SpawnErrors}

\* Mutant: the launch of the failed spawn is left out of the status.
SpawnFailedStatus_Uncounted(m, endpoint, exc) ==
    [LocalOCRServiceStatus(TRUE, endpoint, FALSE, "start-failed", SpawnFailedReason(exc))
     EXCEPT !.launch_attempts = m.launch_attempts - 1,
            !.restart_count = m.restart_count]

\* The status returned from the except clause of Popen, for the manager m
\* with the launch counted.
SpawnFailedStatus(m, endpoint, exc) ==
    [LocalOCRServiceStatus(TRUE, endpoint, FALSE, "start-failed", SpawnFailedReason(exc))
     EXCEPT !.launch_attempts = m.launch_attempts,
            !.restart_count = m.restart_count]

\* One pass of `for attempt_idx in range(max_attempts)` up to its first
\* await, for the manager m, the children kids and the call cr of task c:
\* count the launch, Popen, and either return spawn-failed or store the
\* handle and enter _wait_until_ready, whose first probe is then awaited.
SpawnAttempt(c, m, kids, cr) ==
    LET counted == [m EXCEPT !.launch_attempts = @ + 1]
        pid == NextPid(kids)
    IN  /\ m.launch_attempts < MaxLaunches
        /\ \/ /\ pid # NoPid
              /\ mgr' = [counted EXCEPT !.process = pid, !.endpoint = cr.endpoint]
              /\ children' = [kids EXCEPT ![pid] = "alive"]
              /\ call' = [call EXCEPT ![c] =
                             [cr EXCEPT !.pc = "wait_probe", !.process = pid,
                                        !.spawned = @ + 1]]
              /\ lock' = lock
           \/ \E exc \in SpawnErrors :
                 /\ mgr' = counted
                 /\ children' = kids
                 /\ call' = [call EXCEPT ![c] =
                       Finish(cr, SpawnFailedStatus(counted, cr.endpoint, exc))]
                 /\ lock' = "free"

\* ensure_service up to its first await: the local_url checks, then the
\* lock-free probe is sent.
StartCall(c, cfg) ==
    LET normalized == NormalizedEndpoint(cfg.local_url)
        cr == [IdleCall EXCEPT !.cfg = cfg]
    IN  /\ call[c].pc = "idle"
        /\ call' = [call EXCEPT ![c] =
              IF cfg.local_url = ""
              THEN Finish(cr, LocalOCRServiceStatus(FALSE, _DEFAULT_LOCAL_ENDPOINT,
                                  FALSE, "disabled", "local-url-not-configured"))
              ELSE IF ~normalized.ok
              THEN Finish(cr, LocalOCRServiceStatus(TRUE, cfg.local_url, FALSE,
                                  "unavailable", InvalidLocalUrlReason(normalized.value)))
              ELSE [cr EXCEPT !.pc = "probe1", !.endpoint = normalized.value]]
        /\ UNCHANGED <<mgr, lock, children, outside_local>>

\* Mutant: the lock is handed out while it is held.
CanTakeLock_Always(holder, waiting) == ~waiting

\* asyncio.Lock.acquire without waiting: the lock is free and no task is
\* queued for it.
CanTakeLock(holder, waiting) == holder = "free" /\ ~waiting

\* Mutant: the autostart setting is not consulted.
AutostartOff_Ignored(cfg) == FALSE

\* if not cfg.ocr.local_autostart
AutostartOff(cfg) == ~cfg.local_autostart

\* asyncio.Lock keeps its waiters in a queue and a release wakes the first:
\* a task waits with pc "lock" at the head of the queue and with pc
\* "queued" behind the head.
Waiting(cr) == cr.pc \in {"lock", "queued"}

\* The lock-free probe answers.  Healthy: reused.  Else, autostart off:
\* unavailable.  Else `async with self._lock`: taken at once when it is free
\* and nobody waits, and the second probe is sent; otherwise the task waits.
Probe1Done(c, healthy) ==
    LET cr == [call[c] EXCEPT !.probed = IF healthy THEN "healthy" ELSE "unhealthy",
                              !.first_probe = IF healthy THEN "healthy" ELSE "unhealthy"]
    IN  /\ cr.pc = "probe1"
        /\ IF healthy
           THEN /\ call' = [call EXCEPT ![c] =
                                Finish(cr, ReusedStatus(mgr, children, cr.endpoint))]
                /\ lock' = lock
           ELSE IF AutostartOff(cr.cfg)
           THEN /\ call' = [call EXCEPT ![c] =
                      Finish(cr,
                          [LocalOCRServiceStatus(TRUE, cr.endpoint, FALSE,
                                                 "unavailable", "autostart-disabled")
                           EXCEPT !.launch_attempts = mgr.launch_attempts,
                                  !.restart_count = mgr.restart_count])]
                /\ lock' = lock
           ELSE IF CanTakeLock(lock, \E d \in Callers : call[d].pc = "lock")
           THEN /\ call' = [call EXCEPT ![c] =
                                [cr EXCEPT !.pc = "probe2", !.locked = TRUE]]
                /\ lock' = c
           ELSE /\ call' = [call EXCEPT ![c] =
                      [cr EXCEPT !.pc = IF \E d \in Callers : Waiting(call[d])
                                        THEN "queued" ELSE "lock"]]
                /\ lock' = lock
        /\ UNCHANGED <<mgr, children, outside_local>>

\* The first waiting task gets the released lock and sends the second
\* probe; the task behind it is now the first.
AcquireLock(c) ==
    /\ call[c].pc = "lock"
    /\ CanTakeLock(lock, FALSE)
    /\ lock' = c
    /\ call' = [d \in Callers |->
                   IF d = c THEN [call[c] EXCEPT !.pc = "probe2", !.locked = TRUE]
                   ELSE IF call[d].pc = "queued" THEN [call[d] EXCEPT !.pc = "lock"]
                   ELSE call[d]]
    /\ UNCHANGED <<mgr, children, outside_local>>

\* The probe under the lock answers.  Healthy: reused.  Else a stale handle
\* is handed to _terminate_process off-thread (awaited); without one the
\* plan is built and the first attempt starts.
Probe2Done(c, healthy) ==
    LET cr == [call[c] EXCEPT !.probed = IF healthy THEN "healthy" ELSE "unhealthy"]
        looping == [cr EXCEPT !.attempt_idx = 0,
                              !.max_attempts = MaxAttempts(cr.cfg),
                              !.fresh = (mgr.launch_attempts = 0
                                           /\ mgr.restart_count = 0),
                              !.restarts_before = mgr.restart_count,
                              !.launches_before = mgr.launch_attempts]
    IN  /\ cr.pc = "probe2"
        /\ IF healthy
           THEN /\ call' = [call EXCEPT ![c] =
                                Finish(cr, ReusedStatus(mgr, children, cr.endpoint))]
                /\ lock' = "free"
                /\ UNCHANGED <<mgr, children>>
           ELSE IF mgr.process # NoPid
           THEN /\ call' = [call EXCEPT ![c] =
                                [cr EXCEPT !.pc = "reap_stale", !.process = mgr.process,
                                           !.terminated = @ + 1]]
                /\ UNCHANGED <<mgr, lock, children>>
           ELSE SpawnAttempt(c, mgr, children, looping)
        /\ UNCHANGED outside_local

\* _terminate_process of the stale handle is over: the handle and the
\* endpoint are cleared, the plan is built and the first attempt starts.
\* When it raised, the exception leaves ensure_service.
ReapStaleDone(c, outcome) ==
    LET cr == call[c]
        kids == AfterTerminate(children, cr.process, outcome)
        cleared == ClearHandle(mgr)
        looping == [cr EXCEPT !.process = NoPid, !.attempt_idx = 0,
                              !.max_attempts = MaxAttempts(cr.cfg),
                              !.fresh = (mgr.launch_attempts = 0
                                           /\ mgr.restart_count = 0),
                              !.restarts_before = mgr.restart_count,
                              !.launches_before = mgr.launch_attempts]
    IN  /\ cr.pc = "reap_stale"
        /\ outcome \in TerminateOutcomes(children, cr.process)
        /\ IF outcome = "raised"
           THEN /\ call' = [call EXCEPT ![c] = Raised(cr)]
                /\ lock' = "free"
                /\ UNCHANGED <<mgr, children>>
           ELSE SpawnAttempt(c, cleared, kids, looping)
        /\ UNCHANGED outside_local

\* _wait_until_ready: the probe answers.  Healthy: ready, and ensure_service
\* returns started or restarted.  Else the loop sleeps one second.
WaitProbeDone(c, healthy) ==
    LET cr == call[c]
    IN  /\ cr.pc = "wait_probe"
        /\ IF healthy
           THEN /\ call' = [call EXCEPT ![c] =
                      Finish([cr EXCEPT !.ready_idx = cr.attempt_idx],
                          [LocalOCRServiceStatus(TRUE, cr.endpoint, TRUE,
                               StartedAction(cr.attempt_idx), "service-ready")
                           EXCEPT !.managed = TRUE,
                                  !.pid = cr.process,
                                  !.launch_attempts = mgr.launch_attempts,
                                  !.restart_count = mgr.restart_count])]
                /\ lock' = "free"
           ELSE /\ call' = [call EXCEPT ![c].pc = "wait_sleep"]
                /\ lock' = lock
        /\ UNCHANGED <<mgr, children, outside_local>>

\* _wait_until_ready: the sleep is over.  Past the deadline, or with the
\* child exited, the wait returns False and the child is handed to
\* _terminate_process off-thread; else the next probe is sent.
WaitSleepDone(c, deadline_passed) ==
    LET cr == call[c]
    IN  /\ cr.pc = "wait_sleep"
        /\ call' = [call EXCEPT ![c] =
              IF deadline_passed \/ ~Alive(children, cr.process)
              THEN [cr EXCEPT !.pc = "reap", !.timeouts = @ + 1,
                              !.terminated = @ + 1]
              ELSE [cr EXCEPT !.pc = "wait_probe"]]
        /\ UNCHANGED <<mgr, lock, children, outside_local>>

\* Mutant: every attempt that was not ready counts a restart, the last too.
RestartsAfterTimeout_Always(restart_count, attempt_idx, max_attempts) ==
    restart_count + 1

\* if attempt_idx < max_attempts - 1: self._restart_count += 1
RestartsAfterTimeout(restart_count, attempt_idx, max_attempts) ==
    IF attempt_idx < max_attempts - 1 THEN restart_count + 1 ELSE restart_count

\* _terminate_process of the child that did not become ready is over: the
\* handle and the endpoint are cleared, a restart is counted unless this
\* was the last attempt, and the next attempt starts or start-failed is
\* returned.  When it raised, the exception leaves ensure_service.
ReapDone(c, outcome) ==
    LET cr == call[c]
        kids == AfterTerminate(children, cr.process, outcome)
        more == cr.attempt_idx < cr.max_attempts - 1
        cleared == [ClearHandle(mgr) EXCEPT
                       !.restart_count =
                           RestartsAfterTimeout(@, cr.attempt_idx, cr.max_attempts)]
        next == [cr EXCEPT !.process = NoPid, !.attempt_idx = @ + 1]
    IN  /\ cr.pc = "reap"
        /\ outcome \in TerminateOutcomes(children, cr.process)
        /\ IF outcome = "raised"
           THEN /\ call' = [call EXCEPT ![c] = Raised(cr)]
                /\ lock' = "free"
                /\ UNCHANGED <<mgr, children>>
           ELSE IF more
           THEN SpawnAttempt(c, cleared, kids, next)
           ELSE /\ mgr' = cleared
                /\ children' = kids
                /\ lock' = "free"
                /\ call' = [call EXCEPT ![c] =
                      Finish([cr EXCEPT !.process = NoPid],
                          [LocalOCRServiceStatus(TRUE, cr.endpoint, FALSE,
                                                 "start-failed", "startup-timeout")
                           EXCEPT !.launch_attempts = cleared.launch_attempts,
                                  !.restart_count = cleared.restart_count])]
        /\ UNCHANGED outside_local

\* The task has taken the status (or the exception) of its call.
Return(c) ==
    /\ call[c].pc = "done"
    /\ call' = [call EXCEPT ![c] = IdleCall]
    /\ UNCHANGED <<mgr, lock, children, outside_local>>

\* LocalOCRServiceManager.shutdown: synchronous, it takes no lock.  An
\* exception of _terminate_process leaves it after the handle is cleared.
\* With no handle held it changes nothing (the endpoint is set and cleared
\* together with the handle).
Shutdown(outcome) ==
    /\ mgr.process # NoPid
    /\ outcome \in TerminateOutcomes(children, mgr.process)
    /\ mgr' = ClearHandle(mgr)
    /\ children' = AfterTerminate(children, mgr.process, outcome)
    /\ UNCHANGED <<lock, call, outside_local>>

\* A child process exits on its own.
ChildExits(pid) ==
    /\ children[pid] = "alive"
    /\ children' = [children EXCEPT ![pid] = "exited"]
    /\ UNCHANGED <<mgr, lock, call, outside_local>>

TerminateResults == {"returned", "exited", "oserror", "raised"}

(***************************************************************************)
(* app/local_ocr.py: _normalize_endpoint.                                  *)
(*                                                                         *)
(* A url is held in parts: scheme, netloc, path and query.  The path is    *)
(* the sequence of its segments, each one standing for "/" followed by the *)
(* segment: <<>> is the empty path, <<"v1", "models">> is /v1/models, and  *)
(* an empty segment is a slash that follows a slash or ends the path       *)
(* (<<"v1", "">> is /v1/).  urlparse reads the parts, lower-casing the     *)
(* scheme; the f-string writes scheme, netloc and path back.               *)
(***************************************************************************)
Segments == {"", "v1", "chat", "completions", "models"}

Paths == UNION {[1..n -> Segments] : n \in 0..MaxPathLen}

Urls ==
    [scheme : {"http", "HTTP", "https", "ftp"}, netloc : {"", "127.0.0.1:8001"},
     path : Paths, query : {"", "x=1"}]

\* urlparse(local_url)
urlparse(url) ==
    [scheme |-> IF url.scheme = "HTTP" THEN "http" ELSE url.scheme,
     netloc |-> url.netloc, path |-> url.path, query |-> url.query]

\* path.rstrip("/")
RECURSIVE RStripSlashes(_)
RStripSlashes(path) ==
    IF path # <<>> /\ path[Len(path)] = ""
    THEN RStripSlashes(SubSeq(path, 1, Len(path) - 1))
    ELSE path

\* path.endswith(suffix)
EndsWith(path, suffix) ==
    /\ Len(path) >= Len(suffix)
    /\ SubSeq(path, Len(path) - Len(suffix) + 1, Len(path)) = suffix

\* path.removesuffix(suffix) or "/v1", for a path that ends with suffix
RemoveSuffixOrV1(path, suffix) ==
    LET rest == SubSeq(path, 1, Len(path) - Len(suffix))
    IN  IF rest = <<>> THEN <<"v1">> ELSE rest

\* _normalize_endpoint: [ok, value, url], value the message of the
\* ValueError when the url is rejected, url the endpoint it returns.
normalize_endpoint(local_url) ==
    LET parsed == urlparse(local_url)
        stripped == RStripSlashes(parsed.path)
        path0 == IF stripped = <<>> THEN <<"v1">> ELSE stripped
        path1 == IF EndsWith(path0, <<"chat", "completions">>)
                 THEN RemoveSuffixOrV1(path0, <<"chat", "completions">>)
                 ELSE path0
        path2 == IF EndsWith(path1, <<"models">>)
                 THEN RemoveSuffixOrV1(path1, <<"models">>)
                 ELSE path1
    IN  IF parsed.scheme \notin {"http", "https"}
        THEN [ok |-> FALSE, value |-> "local-url-scheme", url |-> local_url]
        ELSE IF parsed.netloc = ""
        THEN [ok |-> FALSE, value |-> "local-url-netloc", url |-> local_url]
        ELSE [ok |-> TRUE, value |-> "",
              url |-> [scheme |-> parsed.scheme, netloc |-> parsed.netloc,
                       path |-> path2, query |-> ""]]

NoNormalized == [ok |-> FALSE, value |-> "none", url |-> <<>>]

IdleNorm == nz = [pc |-> "idle", url |-> <<>>, once |-> NoNormalized, twice |-> NoNormalized]

\* A url is handed to _normalize_endpoint.
NormalizeUrl ==
    /\ nz.pc = "input"
    /\ nz' = [nz EXCEPT !.pc = IF normalize_endpoint(nz.url).ok THEN "once" ELSE "rejected",
                        !.once = normalize_endpoint(nz.url)]
    /\ UNCHANGED outside_norm

\* The endpoint it returned is handed to it again.
NormalizeAgain ==
    /\ nz.pc = "once"
    /\ nz' = [nz EXCEPT !.pc = "twice", !.twice = normalize_endpoint(nz.once.url)]
    /\ UNCHANGED outside_norm

NextNorm == NormalizeUrl \/ NormalizeAgain

(***************************************************************************)
(* app/ocr_client.py: _group_tiles.                                        *)
(*                                                                         *)
(* An encoded tile is [tile_id, size_bytes, model]: size_bytes is the      *)
(* length of the base64 text, a multiple of 4, and model is the request's  *)
(* model or the configured one, "" when neither is set.                    *)
(***************************************************************************)
TileSizes == {0, 4, 8}

TileModels == {"", "olmocr", "glm-ocr"}

\* The encoded tiles of n requests with the tile ids 1..n.
EncodedTiles(n) ==
    { t \in [1..n -> [tile_id : 1..n, size_bytes : TileSizes, model : TileModels]] :
        \A i \in 1..n : t[i].tile_id = i }

\* Mutant: the size of the group is tested without the tile to be added.
ByteFlush_WithoutTile(current_bytes, tile_bytes, max_bytes) ==
    current_bytes > max_bytes

\* current_bytes + tile_bytes > max_bytes
ByteFlush(current_bytes, tile_bytes, max_bytes) ==
    current_bytes + tile_bytes > max_bytes

\* One pass of the loop of _group_tiles over the tile, from the loop state
\* st = [groups, current, current_bytes, current_model].
GroupStep(st, tile, max_tiles, max_bytes) ==
    LET flush ==
            /\ st.current # <<>>
            /\ \/ Len(st.current) >= max_tiles
               \/ ByteFlush(st.current_bytes, tile.size_bytes, max_bytes)
               \/ st.current_model # "" /\ tile.model # st.current_model
        flushed ==
            IF flush
            THEN [groups |-> Append(st.groups, st.current), current |-> <<>>,
                  current_bytes |-> 0, current_model |-> ""]
            ELSE st
        added ==
            [flushed EXCEPT !.current = Append(@, tile),
                            !.current_bytes = @ + tile.size_bytes,
                            !.current_model = IF @ # "" THEN @ ELSE tile.model]
    IN  IF added.current_bytes >= max_bytes
        THEN [groups |-> Append(added.groups, added.current), current |-> <<>>,
              current_bytes |-> 0, current_model |-> ""]
        ELSE added

RECURSIVE GroupLoop(_, _, _, _, _)
GroupLoop(st, tiles, i, max_tiles, max_bytes) ==
    IF i > Len(tiles) THEN st
    ELSE GroupLoop(GroupStep(st, tiles[i], max_tiles, max_bytes), tiles, i + 1,
                   max_tiles, max_bytes)

\* _group_tiles
group_tiles(tiles, max_tiles, max_bytes) ==
    LET st == GroupLoop([groups |-> <<>>, current |-> <<>>, current_bytes |-> 0,
                         current_model |-> ""], tiles, 1, max_tiles, max_bytes)
    IN  IF st.current # <<>> THEN Append(st.groups, st.current) ELSE st.groups

IdleGroup ==
    grp = [pc |-> "idle", tiles |-> <<>>, max_tiles |-> 1, max_bytes |-> 1,
           groups |-> <<>>]

\* _group_tiles is called on the tiles and limits.
GroupTiles ==
    /\ grp.pc = "input"
    /\ grp' = [grp EXCEPT !.pc = "grouped",
                          !.groups = group_tiles(grp.tiles, grp.max_tiles, grp.max_bytes)]
    /\ UNCHANGED outside_group

NextGroup == GroupTiles

(***************************************************************************)
(* app/ocr_client.py: _QuotaTracker.                                       *)
(*                                                                         *)
(* Days are numbered from 1; _current_day = None is NoDay.  A limit of     *)
(* None is NoLimit, which `if limit` treats like 0.  qt.warnings counts    *)
(* the statuses with warning_triggered returned since the day last changed *)
(* or the tracker was last reset.                                          *)
(***************************************************************************)
NoDay == 0

NoLimit == 0

NoUsed == -1

\* int(limit * ratio) for ratio = _QUOTA_WARNING_RATIO = 0.7; the float
\* product truncates to this for every limit below 90.
WarningThreshold(limit) == (limit * 7) \div 10

\* Mutant: the warning is raised whenever usage is at or past the threshold.
QuotaWarning_LevelTriggered(limit, warned, count) ==
    limit # NoLimit /\ count >= WarningThreshold(limit)

\* limit and not self._warned and self._count >= int(limit * ratio)
QuotaWarning(limit, warned, count) ==
    limit # NoLimit /\ ~warned /\ count >= WarningThreshold(limit)

\* _QuotaTracker.__init__, and the tracker after reset()
NewTracker == [current_day |-> NoDay, count |-> 0, warned |-> FALSE]

\* OCRQuotaStatus
OCRQuotaStatus(limit, used, warning_triggered) ==
    [limit |-> limit, used |-> used, warning_triggered |-> warning_triggered]

NoQuotaStatus == OCRQuotaStatus(NoLimit, NoUsed, FALSE)

\* _QuotaTracker.record on the day today: [tracker, status]
record(tracker, today, tiles, limit) ==
    LET dated == IF tracker.current_day # today
                 THEN [current_day |-> today, count |-> 0, warned |-> FALSE]
                 ELSE tracker
        count == dated.count + tiles
        warning == QuotaWarning(limit, dated.warned, count)
    IN  [tracker |-> [dated EXCEPT !.count = count,
                                   !.warned = IF warning THEN TRUE ELSE @],
         status |-> OCRQuotaStatus(limit, IF limit # NoLimit THEN count ELSE NoUsed,
                                   warning)]

IdleQuota ==
    qt = [tracker |-> NewTracker, today |-> 1, warnings |-> 0,
          status |-> NoQuotaStatus]

\* _quota_tracker.record(tiles, limit=..., ratio=_QUOTA_WARNING_RATIO)
Record(tiles, limit) ==
    LET r == record(qt.tracker, qt.today, tiles, limit)
    IN  /\ qt.tracker.count + tiles <= MaxUsed
        /\ qt' = [qt EXCEPT !.tracker = r.tracker, !.status = r.status,
                            !.warnings = IF r.status.warning_triggered THEN @ + 1 ELSE @]
        /\ UNCHANGED outside_quota

\* reset_quota_tracker()
ResetQuota ==
    /\ qt.tracker # NewTracker
    /\ qt' = [qt EXCEPT !.tracker = NewTracker, !.warnings = 0]
    /\ UNCHANGED outside_quota

\* Midnight: time.strftime("%Y-%m-%d") gives the next day from now on.
DayChanges ==
    /\ qt.today < MaxDays
    /\ qt' = [qt EXCEPT !.today = @ + 1, !.warnings = 0]
    /\ UNCHANGED outside_quota

NextQuota ==
    \/ \E tiles \in 0..MaxTiles, limit \in {NoLimit} \cup 1..MaxQuota : Record(tiles, limit)
    \/ ResetQuota
    \/ DayChanges

(***************************************************************************)
(* app/ocr_client.py: submit_tiles and _submit_batch.                      *)
(*                                                                         *)
(* submit_tiles runs one task per batch under asyncio.gather.  A task is   *)
(* suspended at the semaphore, at the HTTP post of an attempt and at the   *)
(* backoff sleep; what runs between two of these is one step.  The backend *)
(* answers an attempt with one of sub.answers:                             *)
(*   ok         200 with one markdown entry per tile of the batch          *)
(*   http-500   a 5xx status          http-429   too many requests         *)
(*   http-404   a 4xx status          malformed  200 without the markdown  *)
(*   transport  no response (timeout, connection reset)                    *)
(* The markdown the backend returns for a tile is [tile, attempt]: the     *)
(* tile it was asked for and the attempt that asked.                       *)
(***************************************************************************)
_BACKOFF_SCHEDULE == <<3, 9>>

_MAX_ATTEMPTS == Len(_BACKOFF_SCHEDULE) + 1

Answers == {"ok", "http-500", "http-429", "http-404", "malformed", "transport"}

\* settings.ocr: api_key, local_url, server_url.  "" stands for None and
\* for the empty string, the values `if value` takes as false.
OcrSettings ==
    [api_key : {"", "sk-test"},
     local_url : {"", " ", "http://localhost:8001/v1/ocr"},
     server_url : {"https://example.com/api", "https://example.com/v1/ocr/"}]

\* _select_server_url: the local URL if there is one, with the setting it
\* came from.
select_server_url(ocr) ==
    IF ocr.local_url # ""
    THEN [from |-> "local_url", url |-> ocr.local_url]
    ELSE [from |-> "server_url", url |-> ocr.server_url]

\* _normalize_endpoint of ocr_client.py on the URLs of OcrSettings:
\* base.rstrip("/"), then DEFAULT_ENDPOINT_SUFFIX "/v1/ocr" is added
\* unless base ends with "v1/ocr".
client_normalize_endpoint(base) ==
    CASE base = "https://example.com/api" -> "https://example.com/api/v1/ocr"
      [] base = "https://example.com/v1/ocr/" -> "https://example.com/v1/ocr"
      [] base = "http://localhost:8001/v1/ocr" -> "http://localhost:8001/v1/ocr"
      [] base = " " -> " /v1/ocr"

\* No Authorization header.
NoAuthorization == [scheme |-> "", credentials |-> ""]

\* Mutant: the key is attached whenever there is one.
Authorization_ToEveryEndpoint(ocr) ==
    IF ocr.api_key # ""
    THEN [scheme |-> "Bearer", credentials |-> ocr.api_key]
    ELSE NoAuthorization

\* headers["Authorization"] = f"Bearer {cfg.ocr.api_key}", if there is a
\* key and no local URL.
Authorization(ocr) ==
    IF ocr.api_key # "" /\ ~(ocr.local_url # "")
    THEN [scheme |-> "Bearer", credentials |-> ocr.api_key]
    ELSE NoAuthorization

\* A request as http_client.post sends it.
PostedRequest(endpoint, authorization) ==
    [endpoint |-> endpoint, content_type |-> "application/json",
     authorization |-> authorization]

\* response.status_code of an answer; NoStatusCode when there is no response.
NoStatusCode == 0

StatusCodeOf(answer) ==
    CASE answer = "ok" -> 200
      [] answer = "malformed" -> 200
      [] answer = "http-500" -> 500
      [] answer = "http-429" -> 429
      [] answer = "http-404" -> 404
      [] OTHER -> NoStatusCode

\* The exception an answer makes the attempt raise.
ErrorOf(answer) ==
    CASE answer \in {"http-500", "http-429", "http-404"} -> "HTTPStatusError"
      [] answer = "malformed" -> "ValueError"
      [] answer = "transport" -> "TransportError"
      [] OTHER -> "none"

\* Mutant: the semaphore lets every task in.
CanAcquire_Always(value) == TRUE

\* asyncio.Semaphore: acquire goes through while the value is positive.
CanAcquire(value) == value > 0

\* limit = max(1, cfg.ocr.max_concurrency, cfg.ocr.min_concurrency or 0)
SemaphoreLimit(cfg) == MaxOf(1, MaxOf(cfg.max_concurrency, cfg.min_concurrency))

\* Mutant: every backoff sleeps for the first delay of the schedule.
BackoffDelay_First(attempts) == _BACKOFF_SCHEDULE[1]

\* _BACKOFF_SCHEDULE[attempts - 1], the tuple being indexed from 0
BackoffDelay(attempts) == _BACKOFF_SCHEDULE[attempts]

\* The results of an ok response to the tiles of a batch at an attempt.
OkResults(tiles, attempt) ==
    [k \in 1..Len(tiles) |-> [tile |-> tiles[k].tile_id, attempt |-> attempt]]

\* _extract_markdown_batch on a results list at least as long as tile_ids
extract_markdown_batch(results, tile_ids) ==
    [k \in 1..Len(tile_ids) |-> results[k]]

\* Mutant: a chunk is stored under its position in the batch.
StoreMarkdown_ByPosition(markdown_by_id, tile_ids, markdown) ==
    [id \in DOMAIN markdown_by_id |->
        IF id \in 1..Len(tile_ids) THEN markdown[id] ELSE markdown_by_id[id]]

\* for tile_id, chunk in zip(tile_ids, markdown): markdown_by_id[tile_id] = chunk
StoreMarkdown(markdown_by_id, tile_ids, markdown) ==
    [id \in DOMAIN markdown_by_id |->
        IF \E k \in 1..Len(tile_ids) : tile_ids[k] = id
        THEN markdown[CHOOSE k \in 1..Len(tile_ids) : tile_ids[k] = id]
        ELSE markdown_by_id[id]]

NoMarkdown == [tile |-> 0, attempt |-> 0]      \* the "" each tile starts with

\* The batches of a call: at most one per request.
Batches == 1..MaxRequests

\* A batch task before it has the semaphore.  answers is the history of the
\* answers to its attempts, kept for the properties.
NewTask ==
    [pc |-> "sem", attempts |-> 0, status_code |-> NoStatusCode,
     last_error |-> "none", cause |-> "none", sleeps |-> <<>>, answers |-> <<>>]

\* OCRBatchTelemetry
OCRBatchTelemetry(tile_ids, status_code, attempts) ==
    [tile_ids |-> tile_ids, status_code |-> status_code, attempts |-> attempts]

TileIds(tiles) == [k \in 1..Len(tiles) |-> tiles[k].tile_id]

NoSubmit ==
          [pc |-> "idle",
           cfg |-> [max_concurrency |-> 1, min_concurrency |-> 0, max_batch_tiles |-> 1],
           ocr |-> [api_key |-> "sk-test", local_url |-> "",
                    server_url |-> "https://example.com/api"],
           endpoint |-> "", authorization |-> NoAuthorization, posted |-> {},
           answers |-> {}, tiles |-> <<>>, batches |-> <<>>, limit |-> 0,
           semaphore |-> 0, task |-> <<>>, telemetry |-> <<>>,
           markdown_by_id |-> <<>>, markdown_chunks |-> <<>>]

IdleSubmit == sub = NoSubmit

\* submit_tiles up to asyncio.gather: an empty request list returns at once;
\* else the semaphore is made, the tiles are grouped and one task per batch
\* is created.
SubmitTiles ==
    LET batches == group_tiles(sub.tiles, MaxOf(1, sub.cfg.max_batch_tiles), MaxBatchBytes)
        limit == SemaphoreLimit(sub.cfg)
    IN  /\ sub.pc = "called"
        /\ IF sub.tiles = <<>>
           THEN sub' = [sub EXCEPT !.pc = "returned"]
           ELSE sub' = [sub EXCEPT !.pc = "running",
                                      !.endpoint =
                                          client_normalize_endpoint(select_server_url(sub.ocr).url),
                                      !.authorization = Authorization(sub.ocr),
                                      !.batches = batches,
                                      !.limit = limit,
                                      !.semaphore = limit,
                                      !.task = [b \in 1..Len(batches) |-> NewTask],
                                      !.markdown_by_id =
                                          [id \in 1..Len(sub.tiles) |-> NoMarkdown]]
        /\ UNCHANGED <<qt, outside_submit>>

\* `async with semaphore` lets the task of batch b in: _submit_batch starts
\* and sends its first attempt.
AcquireSemaphore(b) ==
    /\ sub.pc \in {"running", "raised"}
    /\ b <= Len(sub.task)
    /\ sub.task[b].pc = "sem"
    /\ CanAcquire(sub.semaphore)
    /\ sub' = [sub EXCEPT !.semaphore = @ - 1,
                          !.task[b].pc = "post",
                          !.task[b].attempts = 1,
                          !.posted = @ \cup {PostedRequest(sub.endpoint, sub.authorization)}]
    /\ UNCHANGED <<qt, outside_submit>>

\* The post of the current attempt of batch b is answered.  ok: the batch
\* result is returned, telemetry and markdown are stored and the semaphore
\* is released.  Else the error is kept; after the last attempt the
\* RuntimeError leaves _submit_batch, the semaphore is released and gather
\* hands the exception to submit_tiles; before it the backoff sleep starts.
PostDone(b, answer) ==
    LET t == sub.task[b]
        tile_ids == TileIds(sub.batches[b])
        answered == [t EXCEPT !.answers = Append(@, answer),
                              !.status_code = IF StatusCodeOf(answer) # NoStatusCode
                                              THEN StatusCodeOf(answer) ELSE @]
        failed == [answered EXCEPT !.last_error = ErrorOf(answer)]
    IN  /\ sub.pc \in {"running", "raised"}
        /\ b <= Len(sub.task)
        /\ t.pc = "post"
        /\ answer \in sub.answers
        /\ IF answer = "ok"
           THEN sub' = [sub EXCEPT
                    !.task[b] = [answered EXCEPT !.pc = "done"],
                    !.semaphore = @ + 1,
                    !.telemetry = Append(@,
                        OCRBatchTelemetry(tile_ids, answered.status_code, t.attempts)),
                    !.markdown_by_id = StoreMarkdown(@, tile_ids,
                        extract_markdown_batch(OkResults(sub.batches[b], t.attempts),
                                               tile_ids))]
           ELSE IF t.attempts >= _MAX_ATTEMPTS
           THEN sub' = [sub EXCEPT
                    !.task[b] = [failed EXCEPT !.pc = "failed",
                                               !.cause = failed.last_error],
                    !.semaphore = @ + 1,
                    !.pc = "raised"]
           ELSE sub' = [sub EXCEPT
                    !.task[b] = [failed EXCEPT !.pc = "sleep",
                                               !.sleeps = Append(@, BackoffDelay(t.attempts))]]
        /\ UNCHANGED <<qt, outside_submit>>

\* The backoff sleep of batch b is over: the next attempt is sent.
SleepDone(b) ==
    /\ sub.pc \in {"running", "raised"}
    /\ b <= Len(sub.task)
    /\ sub.task[b].pc = "sleep"
    /\ sub' = [sub EXCEPT !.task[b].pc = "post", !.task[b].attempts = @ + 1,
                          !.posted = @ \cup {PostedRequest(sub.endpoint, sub.authorization)}]
    /\ UNCHANGED <<qt, outside_submit>>

\* Every task has returned: gather returns, the tiles are recorded with the
\* quota tracker and the chunks are listed in request order.
ReturnResult(daily_quota_tiles) ==
    LET r == record(qt.tracker, qt.today, Len(sub.tiles), daily_quota_tiles)
    IN  /\ sub.pc = "running"
        /\ \A b \in 1..Len(sub.task) : sub.task[b].pc = "done"
        /\ qt' = [qt EXCEPT !.tracker = r.tracker, !.status = r.status,
                            !.warnings = IF r.status.warning_triggered THEN @ + 1 ELSE @]
        /\ sub' = [sub EXCEPT
               !.pc = "returned",
               !.markdown_chunks =
                   [i \in 1..Len(sub.tiles) |-> sub.markdown_by_id[sub.tiles[i].tile_id]]]
        /\ UNCHANGED outside_submit

NextSubmit ==
    \/ SubmitTiles
    \/ \E b \in Batches : AcquireSemaphore(b)
    \/ \E b \in Batches, answer \in Answers : PostDone(b, answer)
    \/ \E b \in Batches : SleepDone(b)
    \/ \E daily_quota_tiles \in {NoLimit, MaxQuota} : ReturnResult(daily_quota_tiles)

(***************************************************************************)
(* The failover executor and the circuit breaker registry (spec 4.5, 4.9). *)
(* Their code is not part of app/ocr_client.py as it is kept here (the     *)
(* tests in tests/test_ocr_failover.py call it), so this part follows the  *)
(* specification's text.  One attempt on a backend (spec 4.8 step 5        *)
(* onward, with its retries) is a single step with an outcome.  The        *)
(* hard-failure re-evaluation of the policy changes the decision of later  *)
(* submissions only and is left out.                                       *)
(***************************************************************************)

\* The backends: the local candidate and the remote one.  The optional
\* MaaS candidate is a second backend of hardware_path remote and is left
\* out.
BackendIds == {"glm-ocr-local-openai", "glm-ocr-remote-openai"}

\* hardware_path of a backend: the local one runs on gpu or cpu.
IsLocalBackend(backend_id) == backend_id = "glm-ocr-local-openai"

\* Closed -> open threshold of a breaker: 2 consecutive failures.
BreakerThreshold == 2

\* The policy decisions: a selected backend and a fallback chain of the
\* other backends, without repetition (spec 3, 4.2 step 4).
Decisions ==
    {[backend_id |-> s, fallback_chain |-> <<>>] : s \in BackendIds}
    \cup {d \in {[backend_id |-> s, fallback_chain |-> <<a>>] :
                     s \in BackendIds, a \in BackendIds} :
              d.fallback_chain[1] # d.backend_id}

NoFailoverDecision == [backend_id |-> "none", fallback_chain |-> <<>>]

\* [selected, *fallback_chain]
FailoverChain(d) == <<d.backend_id>> \o d.fallback_chain

\* A breaker entry; state is closed, open, half-open, or probing while the
\* single probe of a half-open breaker is under way.
ClosedBreaker == [failures |-> 0, state |-> "closed"]

IsOpen(entry) == entry.state \in {"open", "probing"}

\* Mutant: the first failure opens the breaker.
RecordFailure_OpensAtOnce(entry) ==
    [failures |-> entry.failures + 1, state |-> "open"]

\* A failure: the counter goes up; the breaker opens at the threshold, and
\* a failed probe re-opens it.
RecordFailure(entry) ==
    LET failures == entry.failures + 1
    IN  [failures |-> failures,
         state |-> IF failures >= BreakerThreshold \/ entry.state = "probing"
                   THEN "open" ELSE entry.state]

\* A successful submission resets the counter and clears open_until_ts.
RecordSuccess(entry) == ClosedBreaker

\* No error yet (last_error of a walk that has not seen a failure).
NoError == [backend_id |-> "none", reason_code |-> "none"]

\* The outcomes of an attempt on a backend: ensure_service reports the
\* local service unhealthy (local backends only), or the submission
\* succeeds, or it raises after its retries.  A transport error differs
\* from an HTTP error in the reason code of its event alone
\* (runtime.failover.transport-error) and is left out.
Outcomes(backend_id) ==
    {"ok", "runtime.failover.http-error"}
    \cup (IF IsLocalBackend(backend_id) THEN {"runtime.failover.local-unhealthy"} ELSE {})

\* A failover event of the per-submission log.
FailoverEvent(seq, batch, event, backend_id, reason_code, circuit_open) ==
    [seq |-> seq, batch |-> batch, event |-> event, backend_id |-> backend_id,
     reason_code |-> reason_code, circuit_open |-> circuit_open]

\* An attempt on a backend (ensure_service for a local one, then the
\* requests), with the state of the breakers when it began.
Attempt(batch, backend_id, circuit_open, all_open) ==
    [batch |-> batch, backend_id |-> backend_id,
     circuit_open |-> circuit_open, all_open |-> all_open]

\* The walk of one batch through the chain.
NewWalk == [pc |-> "next", pos |-> 1, last_error |-> NoError]

\* Mutant: the probe goes to whatever backend is at hand, local ones too.
BestEffortProbe_AnyBackend(chain, pos, breaker) ==
    \A i \in 1..Len(chain) : IsOpen(breaker[chain[i]])

\* If every breaker of the chain is open, the last-tier remote (the last
\* backend of the chain that is not local) is still attempted once as a
\* best-effort probe (spec 3, Circuit Breaker Entry).
BestEffortProbe(chain, pos, breaker) ==
    /\ ~IsLocalBackend(chain[pos])
    /\ \A i \in (pos + 1)..Len(chain) : IsLocalBackend(chain[i])
    /\ \A i \in 1..Len(chain) : IsOpen(breaker[chain[i]])

\* Variant: a success does not end the walk.
AfterSuccess_Continues(chain, walk) ==
    [walk EXCEPT !.pc = IF walk.pos >= Len(chain) THEN "done" ELSE "next",
                 !.pos = walk.pos + 1]

\* On success ... stop.
AfterSuccess(chain, walk) == [walk EXCEPT !.pc = "done"]

\* Continue with the next backend; the chain is exhausted after the last.
AfterFailure(chain, walk, error) ==
    [walk EXCEPT !.pc = IF walk.pos >= Len(chain) THEN "failed" ELSE "next",
                 !.pos = walk.pos + 1,
                 !.last_error = error]

\* The scenario "local unhealthy, remote 200": the local backend is
\* selected with the remote one as its fallback, every submission is one
\* batch, ensure_service reports the local service unhealthy and the remote
\* backend answers.
ScenarioDecision ==
    [backend_id |-> "glm-ocr-local-openai", fallback_chain |-> <<"glm-ocr-remote-openai">>]

ScenarioOutcome(backend_id) ==
    IF IsLocalBackend(backend_id) THEN "runtime.failover.local-unhealthy" ELSE "ok"

\* Before the first submission: every breaker closed.  scenario records
\* that every step so far has been one of the scenario, with no cooldown
\* elapsed between the submissions.
NoFailover ==
    [pc |-> "idle", decision |-> NoFailoverDecision, walk |-> <<>>, events |-> <<>>,
     attempted |-> {}, scenario |-> TRUE,
     breaker |-> [b \in BackendIds |-> ClosedBreaker],
     error |-> NoError, raised_by |-> 0, submissions |-> 0]

IdleFailover == fo = NoFailover

Walks == 1..MaxFailoverBatches

Settled(walks) == \A i \in 1..Len(walks) : walks[i].pc \in {"done", "failed"}

\* submit_tiles: the policy decision is taken and every batch starts its
\* walk at the selected backend.  The next submission starts when the
\* tasks of the one before have ended.
StartSubmission(d, n) ==
    /\ fo.pc \in {"idle", "returned", "raised"}
    /\ Settled(fo.walk)
    /\ fo.submissions < MaxSubmissions
    /\ fo' = [fo EXCEPT !.pc = "running",
                        !.decision = d,
                        !.walk = [i \in 1..n |-> NewWalk],
                        !.events = <<>>,
                        !.attempted = {},
                        !.scenario = @ /\ d = ScenarioDecision /\ n = 1,
                        !.error = NoError,
                        !.raised_by = 0,
                        !.submissions = @ + 1]
    /\ UNCHANGED outside_failover

\* The chain is exhausted for batch b: the last error goes to the caller
\* (the first batch to fail is the one submit_tiles raises for).
Propagate(b, walk, state) ==
    IF walk.pc = "failed" /\ state.pc = "running"
    THEN [state EXCEPT !.pc = "raised", !.error = walk.last_error, !.raised_by = b]
    ELSE state

\* The breaker of the next backend is open: backend_skipped, continue.
SkipBackend(b) ==
    /\ fo.pc \in {"running", "raised"}
    /\ b <= Len(fo.walk)
    /\ fo.walk[b].pc = "next"
    /\ LET chain == FailoverChain(fo.decision)
           w == fo.walk[b]
           id == chain[w.pos]
           walk == AfterFailure(chain, w, w.last_error)
           event == FailoverEvent(Len(fo.events) + 1, b, "backend_skipped", id,
                                  "runtime.failover.circuit-open", TRUE)
       IN  /\ IsOpen(fo.breaker[id])
           /\ ~BestEffortProbe(chain, w.pos, fo.breaker)
           /\ fo' = Propagate(b, walk,
                        [fo EXCEPT !.walk[b] = walk, !.events = Append(@, event)])
    /\ UNCHANGED outside_failover

\* The next backend is attempted; a half-open breaker lets this one probe
\* through.
AttemptBackend(b) ==
    /\ fo.pc \in {"running", "raised"}
    /\ b <= Len(fo.walk)
    /\ fo.walk[b].pc = "next"
    /\ LET chain == FailoverChain(fo.decision)
           w == fo.walk[b]
           id == chain[w.pos]
       IN  /\ ~IsOpen(fo.breaker[id]) \/ BestEffortProbe(chain, w.pos, fo.breaker)
           /\ fo' = [fo EXCEPT !.walk[b].pc = "attempt",
                               !.attempted = @ \cup
                                   {Attempt(b, id, IsOpen(fo.breaker[id]),
                                            \A i \in 1..Len(chain) :
                                                IsOpen(fo.breaker[chain[i]]))},
                               !.breaker[id].state =
                                   IF @ = "half-open" THEN "probing" ELSE @]
    /\ UNCHANGED outside_failover

\* The attempt ends: backend_succeeded and stop, or backend_failed, a
\* breaker failure, and on to the next backend.
AttemptDone(b, outcome) ==
    /\ fo.pc \in {"running", "raised"}
    /\ b <= Len(fo.walk)
    /\ fo.walk[b].pc = "attempt"
    /\ LET chain == FailoverChain(fo.decision)
           w == fo.walk[b]
           id == chain[w.pos]
       IN  /\ outcome \in Outcomes(id)
           /\ IF outcome = "ok"
              THEN LET event == FailoverEvent(Len(fo.events) + 1, b, "backend_succeeded",
                                              id, "none", FALSE)
                   IN  fo' = [fo EXCEPT !.walk[b] = AfterSuccess(chain, w),
                                        !.breaker[id] = RecordSuccess(@),
                                        !.scenario = @ /\ outcome = ScenarioOutcome(id),
                                        !.events = Append(@, event)]
              ELSE LET entry == RecordFailure(fo.breaker[id])
                       walk == AfterFailure(chain, w,
                                   [backend_id |-> id, reason_code |-> outcome])
                       event == FailoverEvent(Len(fo.events) + 1, b, "backend_failed",
                                              id, outcome, IsOpen(entry))
                   IN  fo' = Propagate(b, walk,
                                 [fo EXCEPT !.walk[b] = walk,
                                            !.breaker[id] = entry,
                                            !.scenario = @ /\ outcome = ScenarioOutcome(id),
                                            !.events = Append(@, event)])
    /\ UNCHANGED outside_failover

\* Every batch has a backend that succeeded: submit_tiles returns the
\* result with the event log.
ReturnSubmission ==
    /\ fo.pc = "running"
    /\ \A i \in 1..Len(fo.walk) : fo.walk[i].pc = "done"
    /\ fo' = [fo EXCEPT !.pc = "returned"]
    /\ UNCHANGED outside_failover

\* The cooldown of an open breaker has passed: half-open.
CooldownElapsed(id) ==
    /\ fo.breaker[id].state = "open"
    /\ fo' = [fo EXCEPT !.breaker[id].state = "half-open", !.scenario = FALSE]
    /\ UNCHANGED outside_failover

NextFailover ==
    \/ \E d \in Decisions, n \in Walks : StartSubmission(d, n)
    \/ \E b \in Walks : SkipBackend(b)
    \/ \E b \in Walks : AttemptBackend(b)
    \/ \E b \in Walks, outcome \in Outcomes("glm-ocr-local-openai") : AttemptDone(b, outcome)
    \/ ReturnSubmission
    \/ \E id \in BackendIds : CooldownElapsed(id)

(***************************************************************************)
(* The adaptive concurrency controller (spec 4.6, AIMD).  Its code is not  *)
(* part of app/ocr_client.py as it is kept here (tests/test_ocr_client.py  *)
(* reads result.autotune), so this part follows the specification's text.  *)
(* The specification leaves the starting limit open: it is any value of    *)
(* [min_concurrency, max_concurrency].  How a completion is classified     *)
(* when several rules apply (a retried batch that was also slow) is left   *)
(* open too: a completion comes with the rule that is applied to it.       *)
(***************************************************************************)

\* The reasons of the adjustment events.
AutotuneReasons == {"healthy", "latency-high", "http-5xx", "retries"}

\* The concurrency settings of a controller: 1 <= min <= max.
AutotuneSettings ==
    {c \in [min_concurrency : 1..MaxLimit, max_concurrency : 1..MaxLimit] :
        c.min_concurrency <= c.max_concurrency}

\* ceil(L / 2)
CeilHalf(limit) == (limit + 1) \div 2

\* Additive increase: L = min(L+1, max)
AdditiveIncrease(limit, cfg) ==
    IF limit + 1 <= cfg.max_concurrency THEN limit + 1 ELSE cfg.max_concurrency

\* Mutant: the halved limit is not held at min_concurrency.
MultiplicativeDecrease_Unclamped(limit, cfg) == CeilHalf(limit)

\* Multiplicative decrease: L = max(ceil(L/2), min)
MultiplicativeDecrease(limit, cfg) == MaxOf(CeilHalf(limit), cfg.min_concurrency)

\* Additive decrease by 1, within the limits the controller maintains.
AdditiveDecrease(limit, cfg) == MaxOf(limit - 1, cfg.min_concurrency)

\* The limit after a batch completion of the given kind.
Adjusted(limit, cfg, reason) ==
    CASE reason = "healthy" -> AdditiveIncrease(limit, cfg)
      [] reason \in {"latency-high", "http-5xx"} -> MultiplicativeDecrease(limit, cfg)
      [] reason = "retries" -> AdditiveDecrease(limit, cfg)

\* An adjustment event.
AutotuneEvent(reason, previous, limit) ==
    [reason |-> reason, previous |-> previous, limit |-> limit]

\* No controller yet.
NoAutotune ==
    [pc |-> "idle", cfg |-> [min_concurrency |-> 1, max_concurrency |-> 1],
     initial_limit |-> 1, limit |-> 1, peak_limit |-> 1, events |-> <<>>]

IdleAutotune == at = NoAutotune

\* A controller is made for a submission.
NewController(cfg, limit) ==
    /\ at.pc = "idle"
    /\ limit \in cfg.min_concurrency..cfg.max_concurrency
    /\ at' = [at EXCEPT !.pc = "running", !.cfg = cfg, !.initial_limit = limit,
                        !.limit = limit, !.peak_limit = limit]
    /\ UNCHANGED outside_autotune

\* A batch completes and the limit is adjusted.
BatchCompleted(reason) ==
    /\ at.pc = "running"
    /\ Len(at.events) < MaxCompletions
    /\ LET limit == Adjusted(at.limit, at.cfg, reason)
       IN  at' = [at EXCEPT !.limit = limit,
                            !.peak_limit = MaxOf(@, limit),
                            !.events = Append(@, AutotuneEvent(reason, at.limit, limit))]
    /\ UNCHANGED outside_autotune

\* The submission ends: peak_limit, final_limit and the events are reported.
ReportAutotune ==
    /\ at.pc = "running"
    /\ at' = [at EXCEPT !.pc = "reported"]
    /\ UNCHANGED outside_autotune

NextAutotune ==
    \/ \E cfg \in AutotuneSettings, limit \in 1..MaxLimit : NewController(cfg, limit)
    \/ \E reason \in AutotuneReasons : BatchCompleted(reason)
    \/ ReportAutotune

(***************************************************************************)
(* app/ocr_client.py: _extract_markdown_batch.                             *)
(*                                                                         *)
(* A JSON value under the key markdown or content is Absent (no such key), *)
(* Null, or a string.  An entry of a list is [dict, markdown, content],    *)
(* dict = FALSE for an entry that is not an object.  The value under       *)
(* results or data is [kind, items]: kind is "absent", "other" (null, a    *)
(* string, an object) or "list".  The response is [dict, results, data,    *)
(* markdown, content], dict = FALSE for a body that is not an object.      *)
(***************************************************************************)
Absent == "<absent>"

Null == "<null>"

\* str(value): the text of a string, "None" for null.
Str(value) == IF value = Null THEN "None" ELSE value

JsonEntry(dict, markdown, content) ==
    [dict |-> dict, markdown |-> markdown, content |-> content]

NotAnObject == JsonEntry(FALSE, Absent, Absent)

\* The entries tried in a results list, and in a data list.
ResultEntries ==
    {NotAnObject} \cup {JsonEntry(TRUE, m, c) : m \in {Absent, "a"}, c \in {Absent, "b"}}

DataEntries ==
    {JsonEntry(TRUE, Absent, Absent), JsonEntry(TRUE, Absent, "c"),
     JsonEntry(TRUE, "d", Absent)}

SeqsUpTo(S, n) == UNION {[1..k -> S] : k \in 0..n}

JsonLists(entries) ==
    {[kind |-> "absent", items |-> <<>>], [kind |-> "other", items |-> <<>>]}
    \cup {[kind |-> "list", items |-> items] : items \in SeqsUpTo(entries, MaxEntries)}

\* The response bodies tried.
Responses ==
    {[dict |-> FALSE, results |-> [kind |-> "absent", items |-> <<>>],
      data |-> [kind |-> "absent", items |-> <<>>],
      markdown |-> Absent, content |-> Absent]}
    \cup [dict : {TRUE}, results : JsonLists(ResultEntries), data : JsonLists(DataEntries),
          markdown : {Absent, Null, "m"}, content : {Absent, "t"}]

\* str | None
NoChunk == [found |-> FALSE, text |-> ""]

Chunk(text) == [found |-> TRUE, text |-> text]

\* Mutant: content is looked up before markdown.
extract_from_entry_ContentFirst(entry) ==
    IF ~entry.dict THEN NoChunk
    ELSE IF entry.content # Absent THEN Chunk(Str(entry.content))
    ELSE IF entry.markdown # Absent THEN Chunk(Str(entry.markdown))
    ELSE NoChunk

\* _extract_markdown_batch._extract_from_entry
extract_from_entry(entry) ==
    IF ~entry.dict THEN NoChunk
    ELSE IF entry.markdown # Absent THEN Chunk(Str(entry.markdown))
    ELSE IF entry.content # Absent THEN Chunk(Str(entry.content))
    ELSE NoChunk

\* The outcome of _extract_markdown_batch: the list returned, or the
\* message of the ValueError raised.
Extracted(chunks) == [ok |-> TRUE, chunks |-> chunks, error |-> ""]

ExtractError(message) == [ok |-> FALSE, chunks |-> <<>>, error |-> message]

\* isinstance(value, list) and len(value) >= len(tile_ids)
LongEnough(value, n) == value.kind = "list" /\ Len(value.items) >= n

\* _extract_markdown_batch for tile_ids of length n
_extract_markdown_batch(response_json, n) ==
    IF ~response_json.dict
    THEN ExtractError("OCR response must be a JSON object")
    ELSE LET source ==
                 IF LongEnough(response_json.results, n) THEN response_json.results
                 ELSE IF LongEnough(response_json.data, n) THEN response_json.data
                 ELSE [kind |-> "absent", items |-> <<>>]
             single == extract_from_entry(
                           JsonEntry(TRUE, response_json.markdown, response_json.content))
         IN  IF source.kind = "list"
             THEN IF \E idx \in 1..n : ~extract_from_entry(source.items[idx]).found
                  THEN ExtractError("OCR response missing markdown content for tile")
                  ELSE Extracted([idx \in 1..n |->
                                      extract_from_entry(source.items[idx]).text])
             ELSE IF single.found /\ n = 1
             THEN Extracted(<<single.text>>)
             ELSE ExtractError("OCR response missing markdown content for batch")

NoExtract ==
    [pc |-> "idle",
     response |-> [dict |-> FALSE, results |-> [kind |-> "absent", items |-> <<>>],
                   data |-> [kind |-> "absent", items |-> <<>>],
                   markdown |-> Absent, content |-> Absent],
     n |-> 0, result |-> ExtractError("")]

IdleExtract == ex = NoExtract

\* _extract_markdown_batch is called on the response and the tile ids.
ExtractMarkdown ==
    /\ ex.pc = "input"
    /\ ex' = [ex EXCEPT !.pc = "extracted",
                        !.result = _extract_markdown_batch(ex.response, ex.n)]
    /\ UNCHANGED outside_extract

NextExtract == ExtractMarkdown

(***************************************************************************)
(* The clock of a circuit breaker (spec 4.5): open_until and the re-open   *)
(* cooldown of one backend's entry.  As for the failover executor, the     *)
(* registry's code is not part of the sources kept here, so this part      *)
(* follows the specification's text.  Time is counted in ticks of one      *)
(* base cooldown (60 s); the ceiling (10 min) is not a power of two times  *)
(* the base, and neither is CooldownCeiling.  An attempt (a health probe   *)
(* or an HTTP exchange) takes time: the clock reads later at its end.      *)
(***************************************************************************)
\* Half-open reset after a fixed cooldown.
BaseCooldown == 1

\* ... doubled cooldown up to a ceiling.
CooldownCeiling == 3

\* open_until_ts cleared.
NoDeadline == -1

\* Mutant: the re-open cooldown is not doubled.
ReopenCooldown_Fixed(cooldown) == cooldown

\* A second failure re-opens with doubled cooldown up to a ceiling.
ReopenCooldown(cooldown) ==
    IF 2 * cooldown > CooldownCeiling THEN CooldownCeiling ELSE 2 * cooldown

\* Mutant: the deadline is the length of the cooldown, not a time of day.
OpenUntil_FromZero(ts, cooldown) == cooldown

\* open_until_ts of a breaker opened at ts.
OpenUntil(ts, cooldown) == ts + cooldown

\* The breaker before its first attempt.  prev_state, prev_open_until and
\* prev_cooldown are the values before the last recorded outcome, last_ts
\* its time, streak the failures since the last success, last the last
\* recorded outcome.
NoBreaker ==
    [pc |-> "rest", entry |-> ClosedBreaker, open_until |-> NoDeadline,
     cooldown |-> BaseCooldown, ts |-> 0,
     prev_state |-> "closed", prev_open_until |-> NoDeadline,
     prev_cooldown |-> BaseCooldown, last_ts |-> 0, streak |-> 0, last |-> "none"]

IdleBreaker == cb = NoBreaker

\* Time passes.
BreakerTick ==
    /\ cb.ts < MaxBreakerTime
    /\ cb' = [cb EXCEPT !.ts = @ + 1]
    /\ UNCHANGED outside_breaker

\* The cooldown of the open breaker has passed: half-open.
BreakerHalfOpen ==
    /\ cb.pc = "rest"
    /\ cb.entry.state = "open"
    /\ cb.ts >= cb.open_until
    /\ cb' = [cb EXCEPT !.entry.state = "half-open"]
    /\ UNCHANGED outside_breaker

\* The backend is attempted: its breaker is closed, or half-open and this
\* is the single probe, or open and this is the best-effort probe.
BreakerAttempt(best_effort) ==
    /\ cb.pc = "rest"
    /\ IF best_effort THEN cb.entry.state = "open" ELSE ~IsOpen(cb.entry)
    /\ cb' = [cb EXCEPT !.pc = "attempt",
                        !.entry.state = IF @ = "half-open" THEN "probing" ELSE @]
    /\ UNCHANGED outside_breaker

\* The attempt ends after elapsed ticks.  A success resets the counter and
\* clears open_until_ts; a failure is counted, and when it leaves the
\* breaker open the deadline is set from the clock: after the base
\* cooldown when it opens, after the doubled one when it re-opens.
BreakerAttemptDone(ok, elapsed) ==
    LET ts == cb.ts + elapsed
        entry == RecordFailure(cb.entry)
        reopened == cb.entry.state \in {"open", "probing"}
        cooldown == IF reopened THEN ReopenCooldown(cb.cooldown) ELSE BaseCooldown
        seen == [cb EXCEPT !.pc = "rest", !.ts = ts,
                           !.prev_state = cb.entry.state,
                           !.prev_open_until = cb.open_until,
                           !.prev_cooldown = cb.cooldown,
                           !.last_ts = ts]
    IN  /\ cb.pc = "attempt"
        /\ ts <= MaxBreakerTime
        /\ cb' = IF ok
                 THEN [seen EXCEPT !.entry = RecordSuccess(cb.entry),
                                   !.open_until = NoDeadline,
                                   !.cooldown = BaseCooldown,
                                   !.streak = 0, !.last = "success"]
                 ELSE IF entry.state = "open"
                 THEN [seen EXCEPT !.entry = entry,
                                   !.open_until = OpenUntil(ts, cooldown),
                                   !.cooldown = cooldown,
                                   !.streak = @ + 1, !.last = "failure"]
                 ELSE [seen EXCEPT !.entry = entry,
                                   !.streak = @ + 1, !.last = "failure"]
        /\ UNCHANGED outside_breaker

NextBreaker ==
    \/ BreakerTick
    \/ BreakerHalfOpen
    \/ \E best_effort \in BOOLEAN : BreakerAttempt(best_effort)
    \/ \E ok \in BOOLEAN, elapsed \in 1..2 : BreakerAttemptDone(ok, elapsed)

(***************************************************************************)
(* The specifications.  Each one starts its own variables and keeps the    *)
(* variables of the others at rest.                                        *)
(***************************************************************************)
IdlePolicy ==
    /\ candidates = <<>>
    /\ decision = NoDecision

IdleReeval ==
    /\ now = 0
    /\ hysteresis = NoContext.hysteresis
    /\ rt_state = EmptyRuntimeState
    /\ reeval = NoCall
    /\ switched = NoSwitches

IdleLocal ==
    /\ mgr = NewManager
    /\ lock = "free"
    /\ children = [p \in Pids |-> "unborn"]
    /\ call = [c \in Callers |-> IdleCall]

AtRestExcept(group) ==
    /\ IF group = "policy" THEN TRUE ELSE IdlePolicy
    /\ IF group = "reeval" THEN TRUE ELSE IdleReeval
    /\ IF group = "local" THEN TRUE ELSE IdleLocal
    /\ IF group = "norm" THEN TRUE ELSE IdleNorm
    /\ IF group = "group" THEN TRUE ELSE IdleGroup
    /\ IF group = "quota" THEN TRUE ELSE IdleQuota
    /\ IF group = "submit" THEN TRUE ELSE IdleSubmit
    /\ IF group = "failover" THEN TRUE ELSE IdleFailover
    /\ IF group = "autotune" THEN TRUE ELSE IdleAutotune
    /\ IF group = "extract" THEN TRUE ELSE IdleExtract
    /\ IF group = "breaker" THEN TRUE ELSE IdleBreaker

\* SpecLocal: concurrent ensure_service calls, shutdown and children.
InitLocal ==
    /\ IdleLocal
    /\ AtRestExcept("local")

NextLocal ==
    \/ \E c \in Callers, cfg \in SettingsChoices : StartCall(c, cfg)
    \/ \E c \in Callers, healthy \in BOOLEAN : Probe1Done(c, healthy)
    \/ \E c \in Callers : AcquireLock(c)
    \/ \E c \in Callers, healthy \in BOOLEAN : Probe2Done(c, healthy)
    \/ \E c \in Callers, outcome \in TerminateResults : ReapStaleDone(c, outcome)
    \/ \E c \in Callers, healthy \in BOOLEAN : WaitProbeDone(c, healthy)
    \/ \E c \in Callers, deadline_passed \in BOOLEAN : WaitSleepDone(c, deadline_passed)
    \/ \E c \in Callers, outcome \in TerminateResults : ReapDone(c, outcome)
    \/ \E outcome \in TerminateResults : Shutdown(outcome)
    \/ \E c \in Callers : Return(c)
    \/ \E pid \in Pids : ChildExits(pid)

SpecLocal == InitLocal /\ [][NextLocal]_vars

\* SpecSelect: the selector applied once to each bounded candidate tuple.
InitSelect ==
    /\ candidates \in CandidateTuples
    /\ decision = NoDecision
    /\ AtRestExcept("policy")

Select ==
    /\ decision.status = "none"
    /\ decision' = select_ocr_backend(candidates)
    /\ UNCHANGED <<candidates, outside_select>>

NextSelect == Select

SpecSelect == InitSelect /\ [][NextSelect]_vars

\* SpecReeval: should_reevaluate_policy threaded through its own state.
InitReeval ==
    /\ ReevalStart
    /\ AtRestExcept("reeval")

SpecReeval == InitReeval /\ [][NextReeval]_vars

\* SpecReevalSoft: the same caller when no signal is a hard failure.
SpecReevalSoft == InitReeval /\ [][NextReevalSoft]_vars

\* SpecNorm: _normalize_endpoint applied to each bounded url, and to its
\* own result.
InitNorm ==
    /\ nz \in [pc : {"input"}, url : Urls, once : {NoNormalized}, twice : {NoNormalized}]
    /\ AtRestExcept("norm")

SpecNorm == InitNorm /\ [][NextNorm]_vars

\* SpecGroup: _group_tiles applied to each bounded tile sequence and limits.
InitGroup ==
    /\ grp \in [pc : {"input"}, tiles : UNION {EncodedTiles(n) : n \in 0..MaxTiles},
                max_tiles : 1..MaxTiles, max_bytes : {1, 4, 8, MaxBatchBytes},
                groups : {<<>>}]
    /\ AtRestExcept("group")

SpecGroup == InitGroup /\ [][NextGroup]_vars

\* SpecQuota: record and reset calls on one tracker while days pass.
InitQuota ==
    /\ IdleQuota
    /\ AtRestExcept("quota")

SpecQuota == InitQuota /\ [][NextQuota]_vars

\* SpecExtract: _extract_markdown_batch applied to each bounded response
\* body and tile count.
InitExtract ==
    /\ ex \in [pc : {"input"}, response : Responses, n : 0..MaxEntries,
               result : {ExtractError("")}]
    /\ AtRestExcept("extract")

SpecExtract == InitExtract /\ [][NextExtract]_vars

\* SpecBreaker: one breaker, attempts that fail or succeed, and the clock.
InitBreaker ==
    /\ IdleBreaker
    /\ AtRestExcept("breaker")

SpecBreaker == InitBreaker /\ [][NextBreaker]_vars

\* The tiles of n requests of 4 base64 bytes with the configured model.
PlainTiles(n) == [i \in 1..n |-> [tile_id |-> i, size_bytes |-> 4, model |-> "olmocr"]]

\* SpecBatch: the requests of one batch, and a backend that gives every
\* kind of answer.
InitBatch ==
    /\ sub \in { [NoSubmit EXCEPT !.pc = "called", !.cfg = cfg, !.answers = Answers,
                                       !.tiles = PlainTiles(n)] :
                     n \in 1..2,
                     cfg \in [max_concurrency : {1}, min_concurrency : {0},
                              max_batch_tiles : {2}] }
    /\ AtRestExcept("submit")

SpecBatch == InitBatch /\ [][NextSubmit]_vars

\* SpecSubmit: up to MaxRequests requests, every concurrency setting, and
\* a backend that answers ok or with a server error.
InitSubmit ==
    /\ sub \in { [NoSubmit EXCEPT !.pc = "called", !.cfg = cfg,
                                       !.answers = {"ok", "http-500"},
                                       !.tiles = PlainTiles(n)] :
                     n \in 0..MaxRequests,
                     cfg \in [max_concurrency : 0..MaxConcurrency,
                              min_concurrency : 0..MaxConcurrency,
                              max_batch_tiles : 1..2] }
    /\ AtRestExcept("submit")

SpecSubmit == InitSubmit /\ [][NextSubmit]_vars

\* SpecHeaders: submit_tiles under every setting of api_key, local_url and
\* server_url, and a backend that answers ok or with a server error.
InitHeaders ==
    /\ sub \in { [NoSubmit EXCEPT !.pc = "called", !.ocr = ocr,
                                       !.answers = {"ok", "http-500"},
                                       !.tiles = PlainTiles(n)] :
                     n \in 0..2, ocr \in OcrSettings }
    /\ AtRestExcept("submit")

SpecHeaders == InitHeaders /\ [][NextSubmit]_vars

\* SpecFailover: submissions in a row, each with its decision and batches.
InitFailover ==
    /\ IdleFailover
    /\ AtRestExcept("failover")

SpecFailover == InitFailover /\ [][NextFailover]_vars

\* SpecAutotune: one controller, every setting and every run of completions.
InitAutotune ==
    /\ IdleAutotune
    /\ AtRestExcept("autotune")

SpecAutotune == InitAutotune /\ [][NextAutotune]_vars

(***************************************************************************)
(* Helpers of the properties.                                              *)
(***************************************************************************)
Range(s) == {s[i] : i \in 1..Len(s)}

SetMin(S) == CHOOSE x \in S : \A y \in S : x <= y

Occurrences(s, x) == Cardinality({i \in 1..Len(s) : s[i] = x})

\* Positions of the candidates that are not marked unhealthy.
UsablePositions == {i \in 1..Len(candidates) : candidates[i].healthy # "False"}

\* The position the selector is to pick: the first usable one, else the first.
ExpectedPosition == IF UsablePositions = {} THEN 1 ELSE SetMin(UsablePositions)

(***************************************************************************)
(* C1: for every non-empty candidate tuple the selector returns a decision *)
(* for the first candidate whose healthy flag is not false (true or        *)
(* unknown), or for the first candidate when all are unhealthy; its        *)
(* backend_id is one of the candidates' ids.                               *)
(***************************************************************************)
C1_SelectsFirstUsable ==
    (decision.status # "none" /\ Len(candidates) > 0) =>
        /\ decision.status = "ok"
        /\ decision.backend_id \in {candidates[i].backend_id : i \in 1..Len(candidates)}
        /\ decision.backend_id = candidates[ExpectedPosition].backend_id
        /\ decision.backend_mode = candidates[ExpectedPosition].backend_mode
        /\ decision.hardware_path = candidates[ExpectedPosition].hardware_path

\* An unhealthy first candidate was skipped for one of unknown health.
C1_Witness ==
    /\ decision.status = "ok"
    /\ Len(candidates) >= 2
    /\ candidates[1].healthy = "False"
    /\ candidates[2].healthy = "None"
    /\ decision.backend_id = candidates[2].backend_id
    /\ decision.backend_id # candidates[1].backend_id

\* All candidates unhealthy: the first one is the fallback selection.
C1_WitnessAllUnhealthy ==
    /\ decision.status = "ok"
    /\ Len(candidates) >= 2
    /\ UsablePositions = {}
    /\ decision.backend_id = candidates[1].backend_id
    /\ decision.backend_id # candidates[2].backend_id

(***************************************************************************)
(* C2: the fallback chain never contains the selected backend_id and is    *)
(* exactly the ids of the remaining candidates (those whose id is not the  *)
(* selected one), in input order, skipped unhealthy ones included; when    *)
(* the ids of the tuple are distinct that is every candidate but the       *)
(* selected one.                                                           *)
(***************************************************************************)
RemainingPositions ==
    {i \in 1..Len(candidates) : candidates[i].backend_id # decision.backend_id}

\* The k-th smallest position among the remaining ones.
KthRemaining(k) ==
    CHOOSE i \in RemainingPositions :
        Cardinality({j \in RemainingPositions : j <= i}) = k

DistinctIds ==
    \A i, j \in 1..Len(candidates) :
        candidates[i].backend_id = candidates[j].backend_id => i = j

C2_FallbackChainIsTheRest ==
    decision.status = "ok" =>
        /\ decision.backend_id \notin Range(decision.fallback_chain)
        /\ Len(decision.fallback_chain) = Cardinality(RemainingPositions)
        /\ \A k \in 1..Len(decision.fallback_chain) :
               decision.fallback_chain[k] = candidates[KthRemaining(k)].backend_id
        /\ DistinctIds =>
               /\ Len(decision.fallback_chain) = Len(candidates) - 1
               /\ RemainingPositions = (1..Len(candidates)) \ {ExpectedPosition}

\* The chain starts with the unhealthy candidate that was skipped before the
\* selected one and goes on with the one after it.
C2_Witness ==
    /\ decision.status = "ok"
    /\ Len(candidates) = 3
    /\ DistinctIds
    /\ candidates[1].healthy = "False"
    /\ decision.backend_id = candidates[2].backend_id
    /\ decision.fallback_chain = <<candidates[1].backend_id, candidates[3].backend_id>>

(***************************************************************************)
(* C3: reason_codes is non-empty, uses only codes of the closed set and    *)
(* holds exactly one path reason, the one of the selected hardware_path.   *)
(***************************************************************************)
ExpectedPathReason ==
    CASE decision.hardware_path = "gpu" -> REASON_LOCAL_GPU_PREFERRED
      [] decision.hardware_path = "cpu" -> REASON_LOCAL_CPU_FALLBACK
      [] decision.hardware_path = "remote" -> REASON_REMOTE_FALLBACK

C3_ReasonCodesWellFormed ==
    decision.status = "ok" =>
        /\ Len(decision.reason_codes) > 0
        /\ Range(decision.reason_codes) \subseteq PolicyReasonCodes
        /\ Occurrences(decision.reason_codes, ExpectedPathReason) = 1
        /\ \A r \in PathReasons \ {ExpectedPathReason} :
               Occurrences(decision.reason_codes, r) = 0

\* A cpu selection after one skip: a skip reason, then the cpu path reason.
C3_Witness ==
    /\ decision.status = "ok"
    /\ decision.hardware_path = "cpu"
    /\ decision.reason_codes = <<REASON_SKIP_UNHEALTHY, REASON_LOCAL_CPU_FALLBACK>>

(***************************************************************************)
(* Helpers of the re-evaluation properties: the last call, read from the   *)
(* context that was supplied to it.                                        *)
(***************************************************************************)
CallWithContext == reeval.called /\ reeval.context.present

HardSignal == reeval.signal \in {"request_failed", "backend_unhealthy"}

\* A signal that asks for re-evaluation and is not a hard failure.
SoftTrigger ==
    \/ reeval.signal \in {"backend_recovered", "periodic_timer"}
    \/ reeval.signal = "latency_spike" /\ reeval.hardware_path # "gpu"

SuppliedState == reeval.context.state

\* Ticks since the last switch of the supplied state.
ElapsedTicks == reeval.context.now_ts - SuppliedState.last_switch_ts

CooldownTicks == reeval.context.hysteresis.cooldown_seconds * TicksPerSecond

\* The last switch occurred less than cooldown_seconds ago.
InsideCooldown ==
    /\ SuppliedState.last_switch_ts # NoTs
    /\ ElapsedTicks < CooldownTicks

\* Positions of the supplied switch history that lie inside the flap window.
WindowPositions ==
    LET window == reeval.context.hysteresis.flap_window_seconds
    IN  {i \in 1..Len(SuppliedState.switch_timestamps) :
            \/ window <= 0
            \/ SuppliedState.switch_timestamps[i] >=
                   reeval.context.now_ts - window * TicksPerSecond}

PrunedCount == Cardinality(WindowPositions)

SuppressedReasons ==
    {REASON_REEVAL_SUPPRESSED_COOLDOWN, REASON_REEVAL_SUPPRESSED_FLAPPING}

\* What a periodic_timer signal is answered in the context of the last call.
TimerProbe ==
    should_reevaluate_policy("periodic_timer", DecisionOn(reeval.hardware_path),
                             reeval.context)

(***************************************************************************)
(* C4: a hard-failure signal (request_failed, backend_unhealthy) is always *)
(* answered should_reevaluate = true with policy.reeval.failure, whatever  *)
(* the runtime state and the hysteresis settings, and hard_failure_bypass  *)
(* is true exactly when a non-hard signal would have been suppressed (by   *)
(* the cooldown or by the flap limit) in the same context.                 *)
(***************************************************************************)
C4_HardFailureBypassesSuppression ==
    (reeval.called /\ HardSignal) =>
        /\ reeval.result.should_reevaluate
        /\ reeval.result.reason_code = REASON_REEVAL_FAILURE
        /\ reeval.result.hard_failure_bypass <=>
               (TimerProbe.reason_code \in SuppressedReasons)
        /\ reeval.result.hard_failure_bypass <=> ~TimerProbe.should_reevaluate

\* backend_unhealthy arrives inside the cooldown and is approved as a bypass.
C4_Witness ==
    /\ CallWithContext
    /\ reeval.signal = "backend_unhealthy"
    /\ InsideCooldown
    /\ reeval.result.should_reevaluate
    /\ reeval.result.hard_failure_bypass

\* request_failed with nothing to bypass.
C4_WitnessNoBypass ==
    /\ CallWithContext
    /\ reeval.signal = "request_failed"
    /\ SuppliedState.last_switch_ts # NoTs
    /\ reeval.result.should_reevaluate
    /\ ~reeval.result.hard_failure_bypass

(***************************************************************************)
(* C5 as stated: no_change returns false with policy.reeval.not-required   *)
(* and the returned state equals the state supplied in the context.        *)
(***************************************************************************)
C5_NoChangeReturnsSuppliedState ==
    (CallWithContext /\ reeval.signal = "no_change") =>
        /\ ~reeval.result.should_reevaluate
        /\ reeval.result.reason_code = REASON_REEVAL_NOT_REQUIRED
        /\ reeval.result.state = SuppliedState

(***************************************************************************)
(* C5 amended: no_change returns false with policy.reeval.not-required,    *)
(* records no switch and no suppression (last_switch_ts and the three      *)
(* counters are those supplied), and the returned switch history is the    *)
(* supplied one without the entries older than now - flap_window_seconds   *)
(* (unchanged when flap_window_seconds <= 0); repeating the call on the    *)
(* returned state returns that state.                                      *)
(***************************************************************************)
C5_NoChangeOnlyPrunes ==
    (CallWithContext /\ reeval.signal = "no_change") =>
        LET returned == reeval.result.state
            again == should_reevaluate_policy(
                         "no_change", DecisionOn(reeval.hardware_path),
                         [reeval.context EXCEPT !.state = returned])
            kept(i) == Cardinality({j \in WindowPositions : j <= i})
        IN  /\ ~reeval.result.should_reevaluate
            /\ reeval.result.reason_code = REASON_REEVAL_NOT_REQUIRED
            /\ returned.last_switch_ts = SuppliedState.last_switch_ts
            /\ returned.suppression_count = SuppliedState.suppression_count
            /\ returned.cooldown_suppression_count =
                   SuppliedState.cooldown_suppression_count
            /\ returned.flap_suppression_count = SuppliedState.flap_suppression_count
            /\ Len(returned.switch_timestamps) = PrunedCount
            /\ \A i \in WindowPositions :
                   returned.switch_timestamps[kept(i)] =
                       SuppliedState.switch_timestamps[i]
            /\ again.state = returned
            /\ ~again.should_reevaluate

\* A no_change call from which an old switch timestamp came back pruned while
\* one exactly flap_window_seconds old was kept.
C5_Witness ==
    /\ CallWithContext
    /\ reeval.signal = "no_change"
    /\ reeval.result.state # SuppliedState
    /\ Len(reeval.result.state.switch_timestamps) > 0
    /\ reeval.result.state.switch_timestamps[1] =
           reeval.context.now_ts
               - reeval.context.hysteresis.flap_window_seconds * TicksPerSecond

(***************************************************************************)
(* C6 as stated: a non-hard trigger inside the cooldown is answered false  *)
(* with policy.reeval.suppressed.cooldown and cooldown_remaining_s equal   *)
(* to the ceiling of cooldown_seconds - elapsed, at least 1.               *)
(***************************************************************************)
C6_CooldownRemainingIsCeiling ==
    (CallWithContext /\ SoftTrigger /\ InsideCooldown) =>
        LET r == reeval.result.cooldown_remaining_s
            diff == CooldownTicks - ElapsedTicks
        IN  /\ ~reeval.result.should_reevaluate
            /\ reeval.result.reason_code = REASON_REEVAL_SUPPRESSED_COOLDOWN
            /\ r >= 1
            /\ (r - 1) * TicksPerSecond < diff
            /\ diff <= r * TicksPerSecond

(***************************************************************************)
(* C6 amended: a non-hard trigger inside the cooldown is answered false    *)
(* with policy.reeval.suppressed.cooldown and cooldown_remaining_s equal   *)
(* to cooldown_seconds - elapsed rounded down to whole seconds (int(),     *)
(* not the ceiling), and 1 when that is 0; it is the ceiling exactly when  *)
(* the difference is a whole number of seconds or less than one second.    *)
(***************************************************************************)
C6_CooldownRemainingIsTruncated ==
    (CallWithContext /\ SoftTrigger /\ InsideCooldown) =>
        LET r == reeval.result.cooldown_remaining_s
            diff == CooldownTicks - ElapsedTicks
        IN  /\ ~reeval.result.should_reevaluate
            /\ reeval.result.reason_code = REASON_REEVAL_SUPPRESSED_COOLDOWN
            /\ r >= 1
            /\ \/ r * TicksPerSecond <= diff /\ diff < (r + 1) * TicksPerSecond
               \/ r = 1 /\ diff < TicksPerSecond
            /\ (diff % TicksPerSecond = 0 \/ diff < TicksPerSecond) =>
                   /\ (r - 1) * TicksPerSecond < diff
                   /\ diff <= r * TicksPerSecond

\* A suppression with a fractional remainder above one second: rounded down.
C6_Witness ==
    /\ CallWithContext
    /\ SoftTrigger
    /\ InsideCooldown
    /\ reeval.result.reason_code = REASON_REEVAL_SUPPRESSED_COOLDOWN
    /\ reeval.result.cooldown_remaining_s * TicksPerSecond
           < CooldownTicks - ElapsedTicks

\* A suppression with less than a second left: reported as 1.
C6_WitnessClamped ==
    /\ CallWithContext
    /\ SoftTrigger
    /\ InsideCooldown
    /\ CooldownTicks - ElapsedTicks < TicksPerSecond
    /\ reeval.result.cooldown_remaining_s = 1

(***************************************************************************)
(* C7 as stated: a non-hard trigger outside the cooldown, with at least    *)
(* flap_threshold switch timestamps left after pruning, is answered false  *)
(* with policy.reeval.suppressed.flapping and flap_window_count equal to   *)
(* the pruned count; when cooldown and flap limit both apply, the cooldown *)
(* reason is reported.                                                     *)
(***************************************************************************)
C7_FlappingAtThreshold ==
    (CallWithContext /\ SoftTrigger) =>
        /\ (~InsideCooldown
              /\ PrunedCount >= reeval.context.hysteresis.flap_threshold) =>
               /\ ~reeval.result.should_reevaluate
               /\ reeval.result.reason_code = REASON_REEVAL_SUPPRESSED_FLAPPING
               /\ reeval.result.flap_window_count = PrunedCount
        /\ (InsideCooldown
              /\ PrunedCount >= reeval.context.hysteresis.flap_threshold) =>
               reeval.result.reason_code = REASON_REEVAL_SUPPRESSED_COOLDOWN

(***************************************************************************)
(* C7 amended: the same, for flap_threshold > 0; a flap_threshold <= 0     *)
(* switches the flap limit off, and a non-hard trigger outside the         *)
(* cooldown is then approved whatever the pruned count.                    *)
(***************************************************************************)
C7_FlappingAtPositiveThreshold ==
    (CallWithContext /\ SoftTrigger) =>
        LET threshold == reeval.context.hysteresis.flap_threshold
        IN  /\ (~InsideCooldown /\ threshold > 0 /\ PrunedCount >= threshold) =>
                   /\ ~reeval.result.should_reevaluate
                   /\ reeval.result.reason_code = REASON_REEVAL_SUPPRESSED_FLAPPING
                   /\ reeval.result.flap_window_count = PrunedCount
            /\ (InsideCooldown /\ threshold > 0 /\ PrunedCount >= threshold) =>
                   reeval.result.reason_code = REASON_REEVAL_SUPPRESSED_COOLDOWN
            /\ (~InsideCooldown /\ threshold <= 0) =>
                   /\ reeval.result.should_reevaluate
                   /\ reeval.result.flap_window_count = PrunedCount

\* Outside the cooldown, exactly flap_threshold switches are left in the
\* window after an older one was pruned: suppressed for flapping.
C7_Witness ==
    /\ CallWithContext
    /\ SoftTrigger
    /\ ~InsideCooldown
    /\ SuppliedState.last_switch_ts # NoTs
    /\ reeval.context.hysteresis.cooldown_seconds > 0
    /\ PrunedCount = reeval.context.hysteresis.flap_threshold
    /\ reeval.result.reason_code = REASON_REEVAL_SUPPRESSED_FLAPPING
    /\ reeval.result.flap_window_count = PrunedCount

\* Cooldown and flap limit both apply: the cooldown is what is reported.
C7_WitnessBoth ==
    /\ CallWithContext
    /\ SoftTrigger
    /\ InsideCooldown
    /\ reeval.context.hysteresis.flap_threshold > 0
    /\ PrunedCount >= reeval.context.hysteresis.flap_threshold
    /\ reeval.result.reason_code = REASON_REEVAL_SUPPRESSED_COOLDOWN

(***************************************************************************)
(* Helpers of the local-service properties.                                *)
(***************************************************************************)
Returned(c) == call[c].pc = "done"

\* The call of task c went through the start loop and no child of it became
\* ready: every attempt it made was spawned and ended in a failed wait.
AllAttemptsTimedOut(c) ==
    /\ Returned(c)
    /\ call[c].timeouts >= 1
    /\ call[c].timeouts = call[c].spawned
    /\ call[c].ready_idx = -1
    /\ call[c].status.reason \notin SpawnFailedReasons

(***************************************************************************)
(* C8: in every reachable state the manager holds at most one process      *)
(* handle, which is a child it spawned, and current_process() returns a    *)
(* process only while it is alive: None when no handle is held or when the *)
(* held process has exited.                                                *)
(***************************************************************************)
C8_OneHandleReturnedOnlyAlive ==
    LET current == current_process(mgr, children)
    IN  /\ mgr.process \in {NoPid} \cup Pids
        /\ mgr.process # NoPid => children[mgr.process] \in {"alive", "exited"}
        /\ current # NoPid =>
               /\ current = mgr.process
               /\ children[current] = "alive"
        /\ (mgr.process = NoPid \/ children[mgr.process] = "exited") =>
               current = NoPid
        /\ (mgr.process # NoPid /\ children[mgr.process] = "alive") =>
               current = mgr.process

\* ensure_service started a child, the manager still holds its handle, the
\* child has exited since: current_process() is None.
C8_Witness ==
    \E c \in Callers :
        /\ Returned(c)
        /\ call[c].status.action = "started"
        /\ mgr.process = call[c].status.pid
        /\ children[mgr.process] = "exited"
        /\ current_process(mgr, children) = NoPid

\* A second child is alive and held while the first one, which survived its
\* termination, is alive too and no longer held.
C8_WitnessOrphan ==
    /\ mgr.process = 2
    /\ children[1] = "alive"
    /\ children[2] = "alive"
    /\ current_process(mgr, children) = 2

(***************************************************************************)
(* C9: a call in which a spawned child became ready (local_url set,        *)
(* autostart on, both probes unhealthy) returns healthy and managed with   *)
(* the pid of that child; the action is started when the first spawn       *)
(* attempt of the call became ready and restarted when a later one did;    *)
(* on a fresh manager a first-attempt success reports launch_attempts = 1  *)
(* and restart_count = 0.  No other call reports started or restarted.     *)
(***************************************************************************)
C9_ReadyChildReportsStarted ==
    \A c \in Callers :
        LET cr == call[c]
        IN  /\ (Returned(c) /\ cr.ready_idx >= 0) =>
                   /\ cr.cfg.local_url # ""
                   /\ cr.cfg.local_autostart
                   /\ cr.status.enabled
                   /\ cr.status.healthy
                   /\ cr.status.managed
                   /\ cr.status.pid = cr.process
                   /\ cr.status.pid \in Pids
                   /\ children[cr.status.pid] # "unborn"
                   /\ cr.spawned = cr.ready_idx + 1
                   /\ cr.ready_idx = 0 => cr.status.action = "started"
                   /\ cr.ready_idx > 0 => cr.status.action = "restarted"
                   /\ (cr.fresh /\ cr.ready_idx = 0) =>
                          /\ cr.status.launch_attempts = 1
                          /\ cr.status.restart_count = 0
            /\ (Returned(c) /\ cr.status.action \in {"started", "restarted"}) =>
                   cr.ready_idx >= 0

\* The second attempt of a call became ready: restarted.
C9_Witness ==
    \E c \in Callers :
        /\ Returned(c)
        /\ call[c].ready_idx = 1
        /\ call[c].status.action = "restarted"
        /\ call[c].status.managed
        /\ call[c].status.pid = 2

\* The first attempt on a fresh manager became ready: started, 1 launch.
C9_WitnessFresh ==
    \E c \in Callers :
        /\ Returned(c)
        /\ call[c].fresh
        /\ call[c].ready_idx = 0
        /\ call[c].status.action = "started"
        /\ call[c].status.launch_attempts = 1
        /\ call[c].status.restart_count = 0

(***************************************************************************)
(* C10: a call whose startup attempts all time out spawns exactly          *)
(* local_max_restarts + 1 children and returns healthy = false,            *)
(* action = start-failed, reason = startup-timeout; on a fresh manager the *)
(* status reports launch_attempts = local_max_restarts + 1 and             *)
(* restart_count = local_max_restarts.                                     *)
(***************************************************************************)
C10_TimeoutsExhaustRetries ==
    \A c \in Callers :
        AllAttemptsTimedOut(c) =>
            LET cr == call[c]
            IN  /\ cr.spawned = cr.cfg.local_max_restarts + 1
                /\ ~cr.status.healthy
                /\ cr.status.action = "start-failed"
                /\ cr.status.reason = "startup-timeout"
                /\ cr.fresh =>
                       /\ cr.status.launch_attempts = cr.cfg.local_max_restarts + 1
                       /\ cr.status.restart_count = cr.cfg.local_max_restarts

\* The same, for the calls that no exception of _terminate_process ended:
\* this is what the code does whenever the reaping of a timed-out child
\* returns.
C10_TimeoutsExhaustRetriesUnlessReapRaises ==
    \A c \in Callers :
        (AllAttemptsTimedOut(c) /\ call[c].status.action # "raised") =>
            LET cr == call[c]
            IN  /\ cr.spawned = cr.cfg.local_max_restarts + 1
                /\ ~cr.status.healthy
                /\ cr.status.action = "start-failed"
                /\ cr.status.reason = "startup-timeout"
                /\ cr.fresh =>
                       /\ cr.status.launch_attempts = cr.cfg.local_max_restarts + 1
                       /\ cr.status.restart_count = cr.cfg.local_max_restarts

\* A fresh manager, local_max_restarts = 1, two children timed out.
C10_WitnessExhausted ==
    \E c \in Callers :
        /\ AllAttemptsTimedOut(c)
        /\ call[c].fresh
        /\ call[c].cfg.local_max_restarts = 1
        /\ call[c].spawned = 2
        /\ call[c].status.action = "start-failed"
        /\ call[c].status.launch_attempts = 2
        /\ call[c].status.restart_count = 1

(***************************************************************************)
(* C11: when the health probe of the normalized endpoint succeeds (the     *)
(* lock-free probe or the one under the lock), ensure_service returns      *)
(* healthy = true, action = reused; the call has spawned and terminated no *)
(* process and the step leaves the manager (launch_attempts,               *)
(* restart_count, handle) and the children as they were; the status        *)
(* carries the manager's counters, and managed is true only if the manager *)
(* holds a live child whose recorded endpoint is the normalized endpoint.  *)
(***************************************************************************)
ReturnsReused(c) ==
    /\ call[c].pc # "done"
    /\ call'[c].pc = "done"
    /\ call'[c].status.action = "reused"

C11_ReusedLeavesManagerAlone ==
    [][\A c \in Callers :
          /\ (call[c].pc \in {"probe1", "probe2"} /\ call'[c].pc = "done"
                  /\ call'[c].status.healthy) =>
                 call'[c].status.action = "reused"
          /\ ReturnsReused(c) =>
                 LET st == call'[c].status
                 IN  /\ call[c].pc \in {"probe1", "probe2"}
                     /\ st.healthy
                     /\ st.enabled
                     /\ st.endpoint = NormalizedEndpoint(call[c].cfg.local_url).value
                     /\ call'[c].spawned = 0
                     /\ call'[c].terminated = 0
                     /\ mgr' = mgr
                     /\ children' = children
                     /\ st.launch_attempts = mgr.launch_attempts
                     /\ st.restart_count = mgr.restart_count
                     /\ st.managed =>
                            /\ mgr.process # NoPid
                            /\ children[mgr.process] = "alive"
                            /\ st.pid = mgr.process
                            /\ mgr.endpoint = st.endpoint
    ]_vars

\* A reused status that reports the manager's live child as managed, with
\* counters that earlier calls have raised.
C11_Witness ==
    \E c \in Callers :
        /\ Returned(c)
        /\ call[c].status.action = "reused"
        /\ call[c].status.managed
        /\ call[c].status.launch_attempts >= 1

\* A reused status for another endpoint than the one the live child was
\* started for: the pid is reported, managed is false.
C11_WitnessOtherEndpoint ==
    \E c \in Callers :
        /\ Returned(c)
        /\ call[c].status.action = "reused"
        /\ call[c].status.pid # NoPid
        /\ ~call[c].status.managed
        /\ mgr.endpoint # call[c].status.endpoint

\* A reused status from the probe under the lock.
C11_WitnessUnderLock ==
    \E c \in Callers :
        /\ Returned(c)
        /\ call[c].status.action = "reused"
        /\ call[c].cfg.local_autostart
        /\ call[c].max_attempts = 0
        /\ \E d \in Callers : call[d].spawned >= 1

(***************************************************************************)
(* C12: a call of ensure_service spawns a child only with a non-empty      *)
(* local_url that normalizes, after the endpoint was probed unhealthy, and *)
(* with autostart on.  Otherwise it returns without spawning: disabled     *)
(* with enabled = false for an empty local_url; unavailable with a reason  *)
(* invalid-local-url:<message> for a rejected url; unavailable with reason *)
(* autostart-disabled when the probe is unhealthy and autostart is off.    *)
(***************************************************************************)
C12_SpawnsOnlyWhenAllowed ==
    \A c \in Callers :
        LET cr == call[c]
            normalized == NormalizedEndpoint(cr.cfg.local_url)
        IN  /\ cr.spawned >= 1 =>
                   /\ cr.cfg.local_url # ""
                   /\ normalized.ok
                   /\ cr.probed = "unhealthy"
                   /\ cr.cfg.local_autostart
            /\ (Returned(c) /\ cr.cfg.local_url = "") =>
                   /\ cr.spawned = 0
                   /\ cr.status.action = "disabled"
                   /\ ~cr.status.enabled
            /\ (Returned(c) /\ cr.cfg.local_url # "" /\ ~normalized.ok) =>
                   /\ cr.spawned = 0
                   /\ cr.status.action = "unavailable"
                   /\ cr.status.reason \in {"invalid-local-url:local-url-scheme",
                                            "invalid-local-url:local-url-netloc"}
            /\ (Returned(c) /\ cr.probed = "unhealthy" /\ ~cr.cfg.local_autostart) =>
                   /\ cr.spawned = 0
                   /\ cr.status.action = "unavailable"
                   /\ cr.status.reason = "autostart-disabled"
            /\ (Returned(c) /\ cr.probed = "healthy") => cr.spawned = 0

\* A call that spawned a child, and by the side of it a call that found the
\* endpoint unhealthy with autostart off.
C12_Witness ==
    \E c, d \in Callers :
        /\ call[c].spawned >= 1
        /\ Returned(d)
        /\ call[d].status.reason = "autostart-disabled"

C12_WitnessDisabled ==
    \E c \in Callers : Returned(c) /\ call[c].status.action = "disabled"

C12_WitnessRejected ==
    \E c \in Callers :
        /\ Returned(c)
        /\ call[c].status.reason = "invalid-local-url:local-url-netloc"

(***************************************************************************)
(* C13: the endpoint normalizer is idempotent: for every url u it accepts, *)
(* normalize(normalize(u)) = normalize(u), also when the path of u ends in *)
(* combinations of /chat/completions and /models or in repeated slashes.   *)
(***************************************************************************)
C13_NormalizeIsIdempotent ==
    nz.pc = "twice" =>
        /\ nz.twice.ok
        /\ nz.twice.url = nz.once.url

\* The urls on which it is idempotent: those whose normalized path is
\* left as it is by a second pass.
C13_IdempotentWhenSuffixFree ==
    (nz.pc = "twice"
        /\ nz.once.url.path[Len(nz.once.url.path)] \notin {"", "models"}
        /\ ~EndsWith(nz.once.url.path, <<"chat", "completions">>)) =>
        /\ nz.twice.ok
        /\ nz.twice.url = nz.once.url

\* /v1/models/ with a query: normalized to /v1, and again to /v1.
C13_WitnessStable ==
    /\ nz.pc = "twice"
    /\ nz.url.path = <<"v1", "models", "">>
    /\ nz.url.query = "x=1"
    /\ nz.once.url.path = <<"v1">>
    /\ nz.twice.url = nz.once.url

\* /v1/models/models: normalized to /v1/models, and again to /v1.
C13_WitnessUnstable ==
    /\ nz.pc = "twice"
    /\ nz.url.path = <<"v1", "models", "models">>
    /\ nz.once.url.path = <<"v1", "models">>
    /\ nz.twice.url.path = <<"v1">>

(***************************************************************************)
(* C19: for every tile sequence, max_tiles >= 1 and max_bytes >= 1, the    *)
(* groups of the batch grouper are non-empty, their concatenation is the   *)
(* input sequence in order, no group holds more than max_tiles tiles, and  *)
(* no group's total base64 size exceeds max_bytes unless the group is a    *)
(* single tile that alone exceeds max_bytes.                               *)
(***************************************************************************)
RECURSIVE Concat(_)
Concat(groups) ==
    IF groups = <<>> THEN <<>> ELSE Head(groups) \o Concat(Tail(groups))

RECURSIVE SumBytes(_)
SumBytes(group) ==
    IF group = <<>> THEN 0 ELSE Head(group).size_bytes + SumBytes(Tail(group))

C19_GroupsPartitionWithinLimits ==
    grp.pc = "grouped" =>
        /\ Concat(grp.groups) = grp.tiles
        /\ \A g \in 1..Len(grp.groups) :
               /\ grp.groups[g] # <<>>
               /\ Len(grp.groups[g]) <= grp.max_tiles
               /\ SumBytes(grp.groups[g]) > grp.max_bytes =>
                      Len(grp.groups[g]) = 1

\* Three tiles of 4 bytes under max_bytes = 9 and max_tiles = 3: two tiles
\* fill the first group, the third would exceed the size.
C19_Witness ==
    /\ grp.pc = "grouped"
    /\ grp.max_bytes = 9
    /\ grp.max_tiles = 3
    /\ Len(grp.tiles) = 3
    /\ Len(grp.groups) = 2
    /\ Len(grp.groups[1]) = 2
    /\ SumBytes(grp.groups[1]) = 8

\* A single tile larger than max_bytes makes a group of its own.
C19_WitnessOversized ==
    /\ grp.pc = "grouped"
    /\ \E g \in 1..Len(grp.groups) :
           /\ SumBytes(grp.groups[g]) > grp.max_bytes
           /\ Len(grp.groups[g]) = 1
    /\ Len(grp.groups) = 3

(***************************************************************************)
(* C18: quota warnings are edge-triggered: among the statuses that record  *)
(* returns on one tracker within one day and without a reset, at most one  *)
(* has warning_triggered = true, however far usage grows past the          *)
(* threshold; a record call warns again only after the day changed or      *)
(* the tracker was reset.                                                  *)
(***************************************************************************)
C18_OneWarningPerDay ==
    /\ qt.warnings <= 1
    /\ (qt.warnings = 1 /\ qt.tracker.current_day = qt.today) => qt.tracker.warned
    /\ qt.status.warning_triggered =>
           /\ qt.status.limit # NoLimit
           /\ qt.status.used >= WarningThreshold(qt.status.limit)

\* The warning was returned earlier today; usage has grown past the
\* threshold since and the last status does not warn.
C18_Witness ==
    /\ qt.warnings = 1
    /\ qt.tracker.warned
    /\ ~qt.status.warning_triggered
    /\ qt.status.limit # NoLimit
    /\ qt.status.used > WarningThreshold(qt.status.limit) + 1

\* A warning on the second day, after one on the first.
C18_WitnessRearmed ==
    /\ qt.today = 2
    /\ qt.tracker.current_day = 2
    /\ qt.status.warning_triggered
    /\ qt.warnings = 1
    /\ qt.status.used < MaxUsed

(***************************************************************************)
(* Helpers of the submission properties.                                   *)
(***************************************************************************)
TaskIds == 1..Len(sub.task)

\* The tasks inside _submit_batch: at the post of an attempt or in backoff.
InFlight == Cardinality({b \in TaskIds : sub.task[b].pc \in {"post", "sleep"}})

\* The attempts of task b that have failed.
FailedAttempts(b) ==
    {k \in 1..Len(sub.task[b].answers) : sub.task[b].answers[k] # "ok"}

\* The telemetry entries of batch b.
TelemetryOf(b) ==
    {n \in 1..Len(sub.telemetry) : sub.telemetry[n].tile_ids = TileIds(sub.batches[b])}

\* The batch that holds request i.
BatchOf(i) ==
    CHOOSE b \in TaskIds : \E k \in 1..Len(sub.batches[b]) :
        sub.batches[b][k].tile_id = sub.tiles[i].tile_id

(***************************************************************************)
(* C14: _submit_batch makes at most 3 HTTP attempts for a batch; it        *)
(* returns on the first successful attempt with telemetry.attempts the     *)
(* number of that attempt; it sleeps 3 s after a failed first attempt and  *)
(* 9 s after a failed second one and never after the third; it raises only *)
(* after all 3 attempts failed, the cause being the error of the last.     *)
(***************************************************************************)
C14_ThreeAttemptsWithBackoff ==
    \A b \in TaskIds :
        LET t == sub.task[b]
            sent == Len(t.answers) + (IF t.pc = "post" THEN 1 ELSE 0)
        IN  /\ t.attempts <= 3
            /\ t.attempts = sent
            /\ \A k \in 1..Len(t.answers) : t.answers[k] = "ok" => k = Len(t.answers)
            /\ t.pc = "done" <=> (t.answers # <<>> /\ t.answers[Len(t.answers)] = "ok")
            /\ t.pc = "done" =>
                   /\ Cardinality(TelemetryOf(b)) = 1
                   /\ \A n \in TelemetryOf(b) :
                          sub.telemetry[n].attempts = Len(t.answers)
            /\ t.sleeps = SubSeq(<<3, 9>>, 1,
                                 IF Cardinality(FailedAttempts(b)) >= 3 THEN 2
                                 ELSE Cardinality(FailedAttempts(b)))
            /\ t.pc = "failed" <=> Cardinality(FailedAttempts(b)) = 3
            /\ t.pc = "failed" =>
                   /\ t.cause = ErrorOf(t.answers[3])
                   /\ TelemetryOf(b) = {}
            /\ t.pc # "failed" => t.cause = "none"

\* Three failed attempts, the last one a malformed body after a 5xx and a
\* timeout: two sleeps, and the ValueError is the cause.
C14_Witness ==
    \E b \in TaskIds :
        /\ sub.task[b].pc = "failed"
        /\ sub.task[b].answers = <<"http-500", "transport", "malformed">>
        /\ sub.task[b].sleeps = <<3, 9>>
        /\ sub.task[b].cause = "ValueError"
        /\ sub.pc = "raised"

\* Success on the third attempt.
C14_WitnessThird ==
    \E b \in TaskIds :
        /\ sub.task[b].pc = "done"
        /\ sub.task[b].attempts = 3
        /\ sub.telemetry[1].attempts = 3
        /\ sub.task[b].sleeps = <<3, 9>>

(***************************************************************************)
(* C15: a persistent backend error on an attempt (a 4xx status other than  *)
(* 429, or a 200 whose body is malformed or lacks the markdown) ends the   *)
(* retry loop of the batch at once: no further attempt is sent to the      *)
(* backend for the batch and the failure leaves _submit_batch.             *)
(***************************************************************************)
PersistentAnswers == {"http-404", "malformed"}

C15_PersistentErrorEndsRetries ==
    \A b \in TaskIds :
        \A k \in 1..Len(sub.task[b].answers) :
            sub.task[b].answers[k] \in PersistentAnswers =>
                /\ sub.task[b].attempts = k
                /\ sub.task[b].pc = "failed"

\* What the loop does: a persistent error before the third attempt is
\* followed by the backoff sleep and the next attempt.
C15_WitnessRetried ==
    \E b \in TaskIds :
        /\ sub.task[b].answers = <<"malformed", "http-404", "ok">>
        /\ sub.task[b].sleeps = <<3, 9>>
        /\ sub.task[b].pc = "done"

(***************************************************************************)
(* C16: during a submit_tiles call, under every interleaving of the batch  *)
(* tasks, the number of batches inside an HTTP submission at once never    *)
(* exceeds the configured concurrency limit, however many batches.         *)
(***************************************************************************)
\* The limit read as ocr.max_concurrency.
C16_InFlightWithinMaxConcurrency ==
    sub.pc \in {"running", "raised"} => InFlight <= sub.cfg.max_concurrency

\* The limit the semaphore is made with: the largest of 1, max_concurrency
\* and min_concurrency, which is max_concurrency when that is at least 1 and
\* at least min_concurrency.
C16_InFlightWithinSemaphoreLimit ==
    sub.pc \in {"running", "raised"} =>
        /\ InFlight <= (IF sub.cfg.max_concurrency >= sub.cfg.min_concurrency
                        THEN (IF sub.cfg.max_concurrency >= 1
                              THEN sub.cfg.max_concurrency ELSE 1)
                        ELSE sub.cfg.min_concurrency)
        /\ (sub.cfg.max_concurrency >= 1
                /\ sub.cfg.min_concurrency <= sub.cfg.max_concurrency) =>
               InFlight <= sub.cfg.max_concurrency
        /\ sub.semaphore >= 0

\* Three batches under max_concurrency = 2: two are inside, one waits.
C16_Witness ==
    /\ sub.pc = "running"
    /\ sub.cfg.max_concurrency = 2
    /\ sub.cfg.min_concurrency <= 2
    /\ Len(sub.task) = 3
    /\ InFlight = 2
    /\ \E b \in TaskIds : sub.task[b].pc = "sem"

(***************************************************************************)
(* C17: when submit_tiles succeeds for N requests with unique tile_ids,    *)
(* markdown_chunks has exactly N entries and entry i is the markdown the   *)
(* backend returned for request i, however the tiles were grouped into     *)
(* batches and in whatever order the batches completed.                    *)
(***************************************************************************)
C17_ChunksInRequestOrder ==
    sub.pc = "returned" =>
        /\ Len(sub.markdown_chunks) = Len(sub.tiles)
        /\ \A i \in 1..Len(sub.tiles) :
               /\ sub.markdown_chunks[i].tile = sub.tiles[i].tile_id
               /\ sub.markdown_chunks[i].attempt = sub.task[BatchOf(i)].attempts

\* Three requests in two batches; the second batch completed first and the
\* first one needed a retry.
C17_Witness ==
    /\ sub.pc = "returned"
    /\ Len(sub.tiles) = 3
    /\ Len(sub.batches) = 2
    /\ sub.telemetry[1].tile_ids = <<3>>
    /\ sub.task[1].attempts = 2
    /\ sub.markdown_chunks[1].attempt = 2
    /\ sub.markdown_chunks[3].attempt = 1

(***************************************************************************)
(* C20: the failover executor.                                             *)
(***************************************************************************)
\* The events of batch b in the log of the submission, in log order.
EventsOf(b) == SelectSeq(fo.events, LAMBDA e : e.batch = b)

\* The error of the last backend_failed event of a batch, NoError if no
\* backend of it failed.
LastBackendError(events) ==
    LET failed == {k \in 1..Len(events) : events[k].event = "backend_failed"}
    IN  IF failed = {}
        THEN NoError
        ELSE LET k == CHOOSE k \in failed : \A j \in failed : j <= k
             IN  [backend_id |-> events[k].backend_id,
                  reason_code |-> events[k].reason_code]

\* C20: the k-th event of a batch is about the k-th backend of
\* [selected, *fallback_chain]; backend_succeeded is the last event of its
\* batch (so there is at most one) and ends the walk; submit_tiles has
\* raised only for a batch whose every backend has a backend_failed or
\* backend_skipped event, with the error of the last backend that failed;
\* it has returned only with a backend_succeeded for every batch.
C20_FirstSuccessEndsChain ==
    LET chain == <<fo.decision.backend_id>> \o fo.decision.fallback_chain
    IN  /\ \A k \in 1..Len(fo.events) : fo.events[k].seq = k
        /\ \A b \in 1..Len(fo.walk) :
              LET events == EventsOf(b)
              IN  /\ Len(events) <= Len(chain)
                  /\ \A k \in 1..Len(events) :
                        /\ events[k].backend_id = chain[k]
                        /\ events[k].event = "backend_succeeded" => k = Len(events)
                  /\ fo.walk[b].pc = "done"
                        <=> (events # <<>> /\ events[Len(events)].event = "backend_succeeded")
                  /\ fo.walk[b].pc = "failed"
                        <=> (/\ Len(events) = Len(chain)
                             /\ events[Len(events)].event # "backend_succeeded")
        /\ fo.pc = "raised" =>
              LET events == EventsOf(fo.raised_by)
              IN  /\ Len(events) = Len(chain)
                  /\ \A k \in 1..Len(events) :
                        events[k].event \in {"backend_failed", "backend_skipped"}
                  /\ fo.error = LastBackendError(events)
        /\ fo.pc = "returned" =>
              \A b \in 1..Len(fo.walk) :
                  \E k \in 1..Len(fo.events) :
                      /\ fo.events[k].batch = b
                      /\ fo.events[k].event = "backend_succeeded"

\* submit_tiles raised for a chain of two backends: the first skipped on
\* its open breaker, the second failed, and its error is the one raised.
C20_Witness ==
    /\ fo.pc = "raised"
    /\ Len(fo.decision.fallback_chain) = 1
    /\ Len(fo.events) = 2
    /\ fo.events[1].event = "backend_skipped"
    /\ fo.events[2].event = "backend_failed"
    /\ fo.error = [backend_id |-> fo.decision.fallback_chain[1],
                   reason_code |-> fo.events[2].reason_code]

\* The local service is unhealthy and the remote backend answers: the
\* walk ended on backend_succeeded after one backend_failed.
C20_WitnessFailedOver ==
    /\ fo.pc = "returned"
    /\ Len(fo.events) = 2
    /\ fo.events[1].event = "backend_failed"
    /\ fo.events[1].reason_code = "runtime.failover.local-unhealthy"
    /\ fo.events[2].event = "backend_succeeded"
    /\ fo.events[2].backend_id = "glm-ocr-remote-openai"

\* Both breakers are open and the remote backend is still probed.
C20_WitnessBestEffort ==
    /\ \E b \in 1..Len(fo.walk) : fo.walk[b].pc = "attempt"
    /\ \A id \in BackendIds : fo.breaker[id].state = "open"

(***************************************************************************)
(* C21: open breakers.                                                     *)
(***************************************************************************)
\* The skipped backends leave a backend_skipped event with the reason
\* runtime.failover.circuit-open, have no attempt, and the walk has gone
\* past them; every other event follows an attempt.
SkippedLeftAlone ==
    \A b \in 1..Len(fo.walk) :
        LET events == EventsOf(b)
        IN  \A k \in 1..Len(events) :
                LET e == events[k]
                    attempts == {a \in fo.attempted :
                                    a.batch = b /\ a.backend_id = e.backend_id}
                IN  IF e.event = "backend_skipped"
                    THEN /\ e.reason_code = "runtime.failover.circuit-open"
                         /\ e.circuit_open
                         /\ attempts = {}
                         /\ fo.walk[b].pos > k
                    ELSE /\ e.reason_code # "runtime.failover.circuit-open"
                         /\ attempts # {}

\* C21 as stated: no attempt begins on a backend whose breaker is open.
C21_OpenNeverAttempted ==
    /\ SkippedLeftAlone
    /\ \A a \in fo.attempted : ~a.circuit_open

\* C21: a backend whose breaker is open is skipped and not attempted,
\* except that a remote backend with no remote backend after it in the
\* chain is attempted while every breaker of the chain is open.
C21_OpenAttemptedOnlyAsLastResort ==
    LET chain == <<fo.decision.backend_id>> \o fo.decision.fallback_chain
    IN  /\ SkippedLeftAlone
        /\ \A a \in fo.attempted :
              a.circuit_open =>
                  /\ a.all_open
                  /\ a.backend_id # "glm-ocr-local-openai"
                  /\ \A i, j \in 1..Len(chain) :
                        chain[i] = a.backend_id /\ j > i
                            => chain[j] = "glm-ocr-local-openai"

\* The local backend was skipped on its open breaker and the remote one
\* was attempted next.
C21_Witness ==
    /\ Len(fo.events) >= 1
    /\ fo.events[1].event = "backend_skipped"
    /\ fo.events[1].backend_id = "glm-ocr-local-openai"
    /\ \E a \in fo.attempted : a.backend_id = "glm-ocr-remote-openai" /\ ~a.circuit_open

\* The remote backend is attempted with its breaker open.
C21_WitnessProbe ==
    \E a \in fo.attempted : a.circuit_open /\ a.backend_id = "glm-ocr-remote-openai"

(***************************************************************************)
(* C22: the circuit opens on the second failure in a row.                  *)
(***************************************************************************)
\* C22: a breaker is closed exactly while fewer than 2 failures in a row
\* are counted; and in the scenario "local unhealthy, remote 200" the log
\* of the first submission is backend_failed(local, local-unhealthy) with
\* the circuit closed, then backend_succeeded(remote); the log of the
\* second has backend_failed for local with circuit_open; the log of the
\* third and of later ones is backend_skipped(local, circuit-open), then
\* backend_succeeded(remote).
C22_CircuitOpensOnSecondFailure ==
    /\ \A id \in BackendIds :
          fo.breaker[id].state = "closed" <=> fo.breaker[id].failures < 2
    /\ fo.scenario /\ fo.pc = "returned" =>
          /\ Len(fo.events) = 2
          /\ fo.events[1].backend_id = "glm-ocr-local-openai"
          /\ fo.events[2].backend_id = "glm-ocr-remote-openai"
          /\ fo.events[2].event = "backend_succeeded"
          /\ fo.submissions = 1 =>
                /\ fo.events[1].event = "backend_failed"
                /\ fo.events[1].reason_code = "runtime.failover.local-unhealthy"
                /\ ~fo.events[1].circuit_open
          /\ fo.submissions = 2 =>
                /\ fo.events[1].event = "backend_failed"
                /\ fo.events[1].reason_code = "runtime.failover.local-unhealthy"
                /\ fo.events[1].circuit_open
          /\ fo.submissions >= 3 =>
                /\ fo.events[1].event = "backend_skipped"
                /\ fo.events[1].reason_code = "runtime.failover.circuit-open"

\* The third submission of the scenario has returned.
C22_Witness ==
    /\ fo.scenario
    /\ fo.pc = "returned"
    /\ fo.submissions = 3
    /\ fo.events[1].event = "backend_skipped"

\* The second submission of the scenario has returned.
C22_WitnessSecond ==
    /\ fo.scenario
    /\ fo.pc = "returned"
    /\ fo.submissions = 2
    /\ fo.events[1].circuit_open

C23_WitnessAtMin ==
    /\ at.cfg.min_concurrency = 2
    /\ \E k \in 1..Len(at.events) :
          at.events[k].reason = "http-5xx" /\ at.events[k].previous = 2 /\ at.events[k].limit = 2
    /\ \E k \in 1..Len(at.events) :
          at.events[k].reason = "retries" /\ at.events[k].previous = 2 /\ at.events[k].limit = 2

(***************************************************************************)
(* C24: the API key and the local endpoint.                                *)
(***************************************************************************)
\* C24: every request goes to the endpoint of the local URL if one is
\* set and of the server URL otherwise; a request to the endpoint of the
\* local URL has no Authorization header; a request that has one goes to
\* the endpoint of the server URL with "Bearer" and the configured key.
C24_NoKeyToLocalEndpoint ==
    \A r \in sub.posted :
        /\ (sub.ocr.local_url # "") =>
              /\ r.endpoint = client_normalize_endpoint(sub.ocr.local_url)
              /\ r.authorization = [scheme |-> "", credentials |-> ""]
        /\ (sub.ocr.local_url = "") =>
              /\ r.endpoint = client_normalize_endpoint(sub.ocr.server_url)
              /\ r.authorization =
                    IF sub.ocr.api_key = ""
                    THEN [scheme |-> "", credentials |-> ""]
                    ELSE [scheme |-> "Bearer", credentials |-> sub.ocr.api_key]

\* A key is configured beside a local URL and a request went out to the
\* local endpoint.
C24_Witness ==
    /\ sub.ocr.api_key = "sk-test"
    /\ sub.ocr.local_url = "http://localhost:8001/v1/ocr"
    /\ \E r \in sub.posted : r.endpoint = "http://localhost:8001/v1/ocr"

\* The key went out to the remote endpoint.
C24_WitnessRemote ==
    /\ sub.ocr.local_url = ""
    /\ \E r \in sub.posted :
          /\ r.authorization.scheme = "Bearer"
          /\ r.endpoint = "https://example.com/v1/ocr"

(***************************************************************************)
(* C25: what an approved re-evaluation records.                            *)
(***************************************************************************)
\* The three suppression counters of the returned state are those supplied.
CountersKept ==
    /\ reeval.result.state.suppression_count = SuppliedState.suppression_count
    /\ reeval.result.state.cooldown_suppression_count =
           SuppliedState.cooldown_suppression_count
    /\ reeval.result.state.flap_suppression_count = SuppliedState.flap_suppression_count

\* Positions of the supplied switch history that are not older than
\* now - flap_window_seconds, whatever flap_window_seconds is.
NotOlderPositions ==
    {i \in 1..Len(SuppliedState.switch_timestamps) :
        SuppliedState.switch_timestamps[i] >=
            reeval.context.now_ts
                - reeval.context.hysteresis.flap_window_seconds * TicksPerSecond}

\* The returned switch history is the supplied entries at the positions
\* kept, in their order, followed by now_ts.
ReturnedHistoryIs(positions) ==
    LET returned == reeval.result.state.switch_timestamps
        place(i) == Cardinality({j \in positions : j <= i})
    IN  /\ Len(returned) = Cardinality(positions) + 1
        /\ returned[Len(returned)] = reeval.context.now_ts
        /\ \A i \in positions : returned[place(i)] = SuppliedState.switch_timestamps[i]

\* C25 as stated: an approved re-evaluation with a context returns
\* last_switch_ts = now_ts and the supplied history without the entries
\* older than now - flap_window_seconds, then now_ts; the counters are kept.
C25_ApprovalRecordsSwitchAfterPruning ==
    (CallWithContext /\ reeval.result.should_reevaluate) =>
        /\ reeval.result.state.last_switch_ts = reeval.context.now_ts
        /\ ReturnedHistoryIs(NotOlderPositions)
        /\ CountersKept

\* C25: the same, the pruning being done for flap_window_seconds > 0 only;
\* with flap_window_seconds <= 0 the whole supplied history is kept before
\* now_ts.  Approved are the hard failures and the unsuppressed triggers.
C25_ApprovalRecordsSwitch ==
    /\ (CallWithContext /\ reeval.result.should_reevaluate) =>
          /\ reeval.result.state.last_switch_ts = reeval.context.now_ts
          /\ ReturnedHistoryIs(WindowPositions)
          /\ CountersKept
    /\ (CallWithContext /\ HardSignal) => reeval.result.should_reevaluate
    /\ (CallWithContext /\ SoftTrigger
          /\ reeval.result.reason_code \notin SuppressedReasons) =>
              reeval.result.should_reevaluate

\* An approved trigger whose supplied history lost an old entry and kept a
\* newer one before now_ts was added.
C25_Witness ==
    /\ CallWithContext
    /\ SoftTrigger
    /\ reeval.result.should_reevaluate
    /\ PrunedCount >= 1
    /\ PrunedCount < Len(SuppliedState.switch_timestamps)
    /\ Len(reeval.result.state.switch_timestamps) = PrunedCount + 1

\* A hard failure approved inside the cooldown with the flap window off:
\* the old entries stay.
C25_WitnessWindowOff ==
    /\ CallWithContext
    /\ HardSignal
    /\ reeval.context.hysteresis.flap_window_seconds = 0
    /\ Len(SuppliedState.switch_timestamps) >= 1
    /\ SuppliedState.switch_timestamps[1] < reeval.context.now_ts
    /\ Len(reeval.result.state.switch_timestamps) =
           Len(SuppliedState.switch_timestamps) + 1

(***************************************************************************)
(* C26: what a suppressed re-evaluation records.                           *)
(***************************************************************************)
\* C26: a suppressed re-evaluation (a non-hard trigger answered false)
\* reports one of the two suppression reasons, returns suppression_count
\* one higher, the counter of the reported reason one higher and the other
\* one as supplied; last_switch_ts is the one supplied and the returned
\* history is the supplied one without the pruned entries, with nothing
\* added; suppression_count = cooldown_suppression_count +
\* flap_suppression_count is kept.
C26_SuppressionCountsOnce ==
    (CallWithContext /\ SoftTrigger /\ ~reeval.result.should_reevaluate) =>
        LET returned == reeval.result.state
            reason == reeval.result.reason_code
            place(i) == Cardinality({j \in WindowPositions : j <= i})
        IN  /\ reason \in SuppressedReasons
            /\ returned.suppression_count = SuppliedState.suppression_count + 1
            /\ returned.cooldown_suppression_count =
                   SuppliedState.cooldown_suppression_count
                       + (IF reason = REASON_REEVAL_SUPPRESSED_COOLDOWN THEN 1 ELSE 0)
            /\ returned.flap_suppression_count =
                   SuppliedState.flap_suppression_count
                       + (IF reason = REASON_REEVAL_SUPPRESSED_FLAPPING THEN 1 ELSE 0)
            /\ returned.last_switch_ts = SuppliedState.last_switch_ts
            /\ Len(returned.switch_timestamps) = PrunedCount
            /\ \A i \in WindowPositions :
                   returned.switch_timestamps[place(i)] =
                       SuppliedState.switch_timestamps[i]
            /\ (SuppliedState.suppression_count =
                    SuppliedState.cooldown_suppression_count
                        + SuppliedState.flap_suppression_count)
                   => (returned.suppression_count =
                           returned.cooldown_suppression_count
                               + returned.flap_suppression_count)

\* A suppression for flapping on a state that already counts one for the
\* cooldown.
C26_Witness ==
    /\ CallWithContext
    /\ reeval.result.reason_code = REASON_REEVAL_SUPPRESSED_FLAPPING
    /\ SuppliedState.cooldown_suppression_count = 1
    /\ reeval.result.state.flap_suppression_count = 1
    /\ reeval.result.state.suppression_count = 2

\* A suppression for the cooldown.
C26_WitnessCooldown ==
    /\ CallWithContext
    /\ reeval.result.reason_code = REASON_REEVAL_SUPPRESSED_COOLDOWN
    /\ reeval.result.state.cooldown_suppression_count =
           SuppliedState.cooldown_suppression_count + 1

(***************************************************************************)
(* C27: latency spikes and the gpu path.                                   *)
(***************************************************************************)
\* C27: policy.reeval.latency is reported only for a latency_spike on a
\* path other than gpu, and then with should_reevaluate = true; a
\* latency_spike on the gpu path is answered false with
\* policy.reeval.not-required, and with a context its returned state has
\* the supplied last_switch_ts and counters and a history with nothing
\* added, inside the cooldown and at the flap limit too.
C27_LatencySpikeTrustsGpu ==
    reeval.called =>
        /\ reeval.result.reason_code = REASON_REEVAL_LATENCY =>
              /\ reeval.signal = "latency_spike"
              /\ reeval.hardware_path # "gpu"
              /\ reeval.result.should_reevaluate
        /\ (reeval.signal = "latency_spike" /\ reeval.hardware_path # "gpu"
              /\ reeval.result.should_reevaluate) =>
                  reeval.result.reason_code = REASON_REEVAL_LATENCY
        /\ (reeval.signal = "latency_spike" /\ reeval.hardware_path = "gpu") =>
              /\ ~reeval.result.should_reevaluate
              /\ reeval.result.reason_code = REASON_REEVAL_NOT_REQUIRED
              /\ reeval.result.state.last_switch_ts = SuppliedState.last_switch_ts
              /\ CountersKept
              /\ Len(reeval.result.state.switch_timestamps) = PrunedCount
              /\ \A k \in 1..Len(reeval.result.state.switch_timestamps) :
                    reeval.result.state.switch_timestamps[k] < reeval.context.now_ts
                        \/ \E i \in 1..Len(SuppliedState.switch_timestamps) :
                              SuppliedState.switch_timestamps[i] = reeval.context.now_ts

\* A latency spike on the gpu path inside the cooldown and at the flap
\* limit: not required, nothing recorded.
C27_Witness ==
    /\ CallWithContext
    /\ reeval.signal = "latency_spike"
    /\ reeval.hardware_path = "gpu"
    /\ InsideCooldown
    /\ reeval.context.hysteresis.flap_threshold > 0
    /\ PrunedCount >= reeval.context.hysteresis.flap_threshold
    /\ reeval.result.reason_code = REASON_REEVAL_NOT_REQUIRED

\* A latency spike on the cpu path is approved with policy.reeval.latency.
C27_WitnessCpu ==
    /\ CallWithContext
    /\ reeval.signal = "latency_spike"
    /\ reeval.hardware_path = "cpu"
    /\ reeval.result.should_reevaluate
    /\ reeval.result.reason_code = REASON_REEVAL_LATENCY

(***************************************************************************)
(* C28: restart_count and the attempts that did not become ready.          *)
(***************************************************************************)
\* restart_count as the call of task c sees it: the manager's counter
\* while the call is in its start loop (it holds the lock), the returned
\* status afterwards.
RestartsSeen(c) ==
    IF call[c].pc = "done" THEN call[c].status.restart_count ELSE mgr.restart_count

\* The call of task c is in its start loop or has returned from it.
InStartLoop(c) ==
    \/ call[c].pc \in {"wait_probe", "wait_sleep", "reap"}
    \/ /\ call[c].pc = "done"
       /\ call[c].status.action \in {"started", "restarted", "start-failed"}

\* C28 as stated: restart_count has grown by the number of attempts of
\* the call that timed out (or whose child exited), once the child of the
\* last of them has been through _terminate_process.
C28_RestartPerTimedOutAttempt ==
    \A c \in Callers :
        (InStartLoop(c) /\ call[c].pc # "reap") =>
            RestartsSeen(c) = call[c].restarts_before + call[c].timeouts

\* C28 amended: every attempt that did not become ready hands its child
\* to _terminate_process, and restart_count is incremented by one for
\* each such attempt that is followed by another attempt; the last
\* attempt of the call (index max_attempts - 1) increments nothing, so
\* a call that exhausts its attempts adds max_attempts - 1.
C28_RestartPerRetriedAttempt ==
    \A c \in Callers :
        LET cr == call[c]
            exhausted == /\ cr.pc = "done"
                         /\ cr.status.action = "start-failed"
                         /\ cr.status.reason = "startup-timeout"
        IN  InStartLoop(c) =>
                /\ cr.terminated >= cr.timeouts
                /\ cr.timeouts <= cr.max_attempts
                /\ cr.pc \in {"wait_probe", "wait_sleep"} =>
                      /\ cr.timeouts = cr.attempt_idx
                      /\ RestartsSeen(c) = cr.restarts_before + cr.timeouts
                /\ cr.pc = "reap" =>
                      /\ cr.process # NoPid
                      /\ cr.timeouts = cr.attempt_idx + 1
                      /\ RestartsSeen(c) = cr.restarts_before + cr.timeouts - 1
                /\ (cr.pc = "done" /\ ~exhausted) =>
                      RestartsSeen(c) = cr.restarts_before + cr.timeouts
                /\ exhausted =>
                      /\ cr.timeouts = cr.max_attempts
                      /\ RestartsSeen(c) = cr.restarts_before + cr.max_attempts - 1

\* local_max_restarts = 1 and both children timed out: two timed-out
\* attempts, one restart counted.
C28_Witness ==
    \E c \in Callers :
        /\ call[c].pc = "done"
        /\ call[c].status.action = "start-failed"
        /\ call[c].status.reason = "startup-timeout"
        /\ call[c].timeouts = 2
        /\ call[c].terminated >= 2
        /\ call[c].status.restart_count = call[c].restarts_before + 1

\* The first child timed out, the second became ready: one restart.
C28_WitnessRestarted ==
    \E c \in Callers :
        /\ call[c].pc = "done"
        /\ call[c].status.action = "restarted"
        /\ call[c].timeouts = 1
        /\ call[c].status.restart_count = call[c].restarts_before + 1

(***************************************************************************)
(* C29: a spawn that fails ends the call.                                  *)
(***************************************************************************)
\* The call of task c has returned from the except clause of Popen.
SpawnFailed(c) ==
    /\ Returned(c)
    /\ call[c].status.reason \in SpawnFailedReasons

\* C29: a call whose spawn failed has returned healthy = false, action =
\* start-failed and reason spawn-failed:<class of the exception>, with no
\* managed child; the failed spawn is the attempt that follows the
\* children the call spawned (each of them timed out), it is counted in
\* launch_attempts together with them, and the call made no attempt after
\* it, also when attempts remain.  No other return of the start loop
\* carries a spawn-failed reason.
C29_SpawnFailureEndsCall ==
    \A c \in Callers :
        LET cr == call[c]
        IN  /\ SpawnFailed(c) =>
                /\ ~cr.status.healthy
                /\ cr.status.enabled
                /\ cr.status.action = "start-failed"
                /\ ~cr.status.managed
                /\ cr.status.pid = NoPid
                /\ cr.process = NoPid
                /\ cr.ready_idx = -1
                /\ cr.spawned = cr.attempt_idx
                /\ cr.timeouts = cr.spawned
                /\ cr.attempt_idx < cr.max_attempts
                /\ cr.status.launch_attempts = cr.launches_before + cr.spawned + 1
                /\ cr.status.restart_count = cr.restarts_before + cr.spawned
            /\ (Returned(c) /\ cr.status.action = "start-failed"
                  /\ cr.status.reason \notin SpawnFailedReasons) =>
                    /\ cr.status.reason = "startup-timeout"
                    /\ cr.spawned = cr.max_attempts
            /\ cr.pc \in {"wait_probe", "wait_sleep", "reap"} =>
                    /\ cr.spawned = cr.attempt_idx + 1
                    /\ mgr.launch_attempts = cr.launches_before + cr.spawned

\* The first spawn of a call with local_max_restarts = 1 failed with
\* FileNotFoundError: one launch counted, no child, a restart was left.
C29_Witness ==
    \E c \in Callers :
        /\ SpawnFailed(c)
        /\ call[c].status.reason = "spawn-failed:FileNotFoundError"
        /\ call[c].cfg.local_max_restarts = 1
        /\ call[c].spawned = 0
        /\ call[c].status.launch_attempts = call[c].launches_before + 1

\* The first child timed out and the spawn of the second failed.
C29_WitnessAfterTimeout ==
    \E c \in Callers :
        /\ SpawnFailed(c)
        /\ call[c].status.reason = "spawn-failed:OSError"
        /\ call[c].spawned = 1
        /\ call[c].timeouts = 1
        /\ call[c].status.launch_attempts = call[c].launches_before + 2

(***************************************************************************)
(* C30: the termination sequence and its caller.                           *)
(***************************************************************************)
\* C30: _terminate_process never raises to its caller: no ensure_service
\* call ends by an exception that left the termination sequence, neither
\* when it reaps a stale handle nor when it reaps a child that did not
\* become ready.
C30_TerminationNeverRaises ==
    \A c \in Callers :
        Returned(c) => call[c].status.action # "raised"

\* A call reaped the child of its only attempt, the child outlived
\* terminate() and the first wait, and the exception of kill() or of the
\* second wait ended the call: the child is still alive.
C30_WitnessRaised ==
    \E c \in Callers :
        /\ Returned(c)
        /\ call[c].status.action = "raised"
        /\ call[c].timeouts = 1
        /\ Alive(children, call[c].process)

(***************************************************************************)
(* C31: concurrent ensure_service calls and the lock.                      *)
(***************************************************************************)
\* The call of task c is between `async with self._lock` and its return:
\* second probe, reap of a stale handle, spawn and ready-wait, reap.
InCritical(c) ==
    call[c].pc \in {"probe2", "reap_stale", "wait_probe", "wait_sleep", "reap"}

\* C31: the sections under the lock are mutually exclusive (a call is in
\* one exactly while it holds the lock, so no two calls are), and a call
\* whose probe under the lock was healthy has returned reused without
\* spawning or terminating anything, reporting the live child the manager
\* holds, if any.
C31_StartSectionsExcludeEachOther ==
    /\ \A c \in Callers : InCritical(c) <=> lock = c
    /\ \A c, d \in Callers : (InCritical(c) /\ InCritical(d)) => c = d
    /\ \A c \in Callers :
          LET cr == call[c]
          IN  /\ InCritical(c) => cr.locked
              /\ cr.spawned > 0 => cr.locked
              /\ (Returned(c) /\ cr.locked /\ cr.status.action = "reused") =>
                    /\ cr.probed = "healthy"
                    /\ cr.spawned = 0
                    /\ cr.terminated = 0
                    /\ cr.status.healthy
                    /\ cr.status.managed => cr.status.pid # NoPid

\* One caller started the only child there is; the other took the lock
\* afterwards, found the endpoint healthy and returned reused with that
\* child: one start, one live child, two callers served.
C31_Witness ==
    \E c, d \in Callers :
        /\ c # d
        /\ Returned(c) /\ call[c].status.action = "started"
        /\ Returned(d) /\ call[d].locked /\ call[d].status.action = "reused"
        /\ call[d].spawned = 0
        /\ call[d].status.managed
        /\ call[d].status.pid = call[c].status.pid
        /\ mgr.process = call[c].status.pid
        /\ \A p \in Pids : Alive(children, p) <=> p = mgr.process
        /\ \A p \in Pids : p # mgr.process => children[p] = "unborn"

\* One caller is in its ready-wait while the other waits for the lock.
C31_WitnessWaiting ==
    \E c, d \in Callers :
        /\ call[c].pc = "wait_sleep"
        /\ call[d].pc = "lock"

(***************************************************************************)
(* C32: what runs under the lock and what does not.                        *)
(***************************************************************************)
\* The configuration of a call lets it go on to the lock: local_url set
\* and accepted, autostart on.
MayStart(cfg) ==
    /\ cfg.local_url # ""
    /\ NormalizedEndpoint(cfg.local_url).ok
    /\ cfg.local_autostart

\* C32 as stated: the lock is held only across stale-reap, plan build,
\* spawn and ready-wait (with the reap that ends it), and probes of the
\* endpoint before the start loop run without it.
C32_LockOnlyAcrossStartup ==
    \A c \in Callers :
        lock = c => call[c].pc \in {"reap_stale", "wait_probe", "wait_sleep", "reap"}

\* C32 amended: the lock is held across the double-checked re-probe,
\* stale-reap, plan build, spawn and ready-wait; a call has acquired it,
\* or waits for it, only with an accepted local_url, autostart on and an
\* unhealthy first probe, so a call whose first probe is healthy, or
\* whose autostart is off, or whose local_url is empty or invalid, has
\* returned without the lock and without waiting for it.
C32_LockFreeReturns ==
    \A c \in Callers :
        LET cr == call[c]
        IN  /\ lock = c =>
                  cr.pc \in {"probe2", "reap_stale", "wait_probe", "wait_sleep", "reap"}
            /\ (cr.locked \/ Waiting(cr)) =>
                  /\ MayStart(cr.cfg)
                  /\ cr.first_probe = "unhealthy"
            /\ (cr.pc # "idle" /\ ~MayStart(cr.cfg)) =>
                  /\ ~cr.locked
                  /\ cr.pc \in {"probe1", "done"}
                  /\ Returned(c) => cr.status.action \in {"disabled", "unavailable", "reused"}
            /\ cr.first_probe = "healthy" =>
                  /\ ~cr.locked
                  /\ Returned(c)
                  /\ cr.status.action = "reused"
            /\ (Returned(c) /\ cr.status.action \in {"disabled", "unavailable"}) =>
                  ~cr.locked

\* One call holds the lock in its ready-wait; the other returned reused
\* from its first probe, without the lock, with the pid of the child the
\* first one spawned under that lock: it returned while the lock was held.
C32_Witness ==
    \E c, d \in Callers :
        /\ c # d
        /\ lock = c
        /\ call[c].pc = "wait_sleep"
        /\ Returned(d)
        /\ ~call[d].locked
        /\ call[d].first_probe = "healthy"
        /\ call[d].status.action = "reused"
        /\ call[d].status.pid = call[c].process
        /\ call[d].status.pid # NoPid

\* Autostart off: unavailable without the lock, while the other call holds
\* it, reporting the launch that call made.
C32_WitnessAutostartOff ==
    \E c, d \in Callers :
        /\ c # d
        /\ lock = c
        /\ call[c].pc = "wait_probe"
        /\ Returned(d)
        /\ ~call[d].locked
        /\ call[d].status.reason = "autostart-disabled"
        /\ call[d].status.launch_attempts = mgr.launch_attempts
        /\ call[c].launches_before = 0
        /\ mgr.launch_attempts = 1

(***************************************************************************)
(* C33: response normalization for a batch of N tiles.                     *)
(***************************************************************************)
\* The text of an entry: str of its markdown, or else of its content.
TextOf(entry) ==
    IF entry.markdown # Absent THEN Str(entry.markdown) ELSE Str(entry.content)

HasText(entry) ==
    entry.dict /\ (entry.markdown # Absent \/ entry.content # Absent)

\* The list the chunks are read from: results when it is a list of at
\* least n entries, or else data when it is; <<>> with n > 0 when neither.
ChosenList(response, n) ==
    IF response.results.kind = "list" /\ Len(response.results.items) >= n
    THEN response.results.items
    ELSE response.data.items

HasChosenList(response, n) ==
    \/ response.results.kind = "list" /\ Len(response.results.items) >= n
    \/ response.data.kind = "list" /\ Len(response.data.items) >= n

\* C33: with a results list (or else a data list) of at least N entries
\* the call returns the markdown (or else content) of the first N entries
\* in tile order, and fails when one of them has neither; without such a
\* list a top-level markdown (or else content) is returned only for
\* N = 1; every other call fails, and no call returns a list of another
\* length than N.
C33_ChunksOfFirstNEntries ==
    ex.pc = "extracted" =>
        LET r == ex.response
            n == ex.n
            top == JsonEntry(TRUE, r.markdown, r.content)
            out == ex.result
        IN  /\ out.ok => Len(out.chunks) = n
            /\ ~r.dict => ~out.ok
            /\ (r.dict /\ HasChosenList(r, n)) =>
                  LET source == ChosenList(r, n)
                  IN  IF \A k \in 1..n : HasText(source[k])
                      THEN /\ out.ok
                           /\ \A k \in 1..n : out.chunks[k] = TextOf(source[k])
                      ELSE ~out.ok
            /\ (r.dict /\ ~HasChosenList(r, n)) =>
                  IF n = 1 /\ HasText(top)
                  THEN out.ok /\ out.chunks = <<TextOf(top)>>
                  ELSE ~out.ok

\* Two tiles, a results list of one entry and a data list of two: the
\* chunks are those of data, in order.
C33_Witness ==
    /\ ex.pc = "extracted"
    /\ ex.n = 2
    /\ ex.response.results.kind = "list"
    /\ Len(ex.response.results.items) = 1
    /\ ex.result.ok
    /\ ex.result.chunks = <<"d", "c">>

\* Two tiles and only a top-level markdown: the attempt fails.
C33_WitnessLoneResult ==
    /\ ex.pc = "extracted"
    /\ ex.n = 2
    /\ ex.response.markdown = "m"
    /\ ~HasChosenList(ex.response, 2)
    /\ ~ex.result.ok

\* A results entry with markdown and content: markdown wins; the second
\* entry has content only.
C33_WitnessMarkdownFirst ==
    /\ ex.pc = "extracted"
    /\ ex.n = 2
    /\ ex.response.results.kind = "list"
    /\ Len(ex.response.results.items) = 2
    /\ ex.response.results.items[1] = JsonEntry(TRUE, "a", "b")
    /\ ex.result.ok
    /\ ex.result.chunks = <<"a", "b">>

C34_WitnessBestEffort ==
    /\ cb.last = "failure"
    /\ cb.prev_state = "open"
    /\ cb.ts < cb.prev_open_until
    /\ cb.open_until > cb.prev_open_until

\* A success after the breaker had been open.
C34_WitnessReset ==
    /\ cb.last = "success"
    /\ cb.prev_open_until # NoDeadline
    /\ cb.open_until = NoDeadline

(***************************************************************************)
(* C35: one model per group.                                               *)
(***************************************************************************)
\* _build_payload: the model sent with a batch is that of its first tile.
PayloadModel(group) == group[1].model

\* C35: no returned group holds tiles of two different models, so the
\* model of the payload is the model of every tile of the batch.
C35_GroupsHaveOneModel ==
    grp.pc = "grouped" =>
        \A g \in 1..Len(grp.groups) :
            \A k \in 1..Len(grp.groups[g]) :
                grp.groups[g][k].model = PayloadModel(grp.groups[g])

\* What holds instead: a group whose first tile names a model holds
\* tiles of that model only, and in every group the tiles that name a
\* model name the same one after the first that does.
C35_NamedGroupsHaveOneModel ==
    grp.pc = "grouped" =>
        \A g \in 1..Len(grp.groups) :
            LET group == grp.groups[g]
            IN  /\ PayloadModel(group) # "" =>
                      \A k \in 1..Len(group) : group[k].model = PayloadModel(group)
                /\ \A j, k \in 1..Len(group) :
                      (j < k /\ group[j].model # "") => group[k].model = group[j].model

\* A tile without a model followed by a tile of glm-ocr, in one group:
\* the payload carries no model for a tile that asked for glm-ocr.
C35_WitnessMixed ==
    /\ grp.pc = "grouped"
    /\ Len(grp.groups) = 1
    /\ Len(grp.groups[1]) = 2
    /\ PayloadModel(grp.groups[1]) = ""
    /\ grp.groups[1][2].model = "glm-ocr"

(***************************************************************************)
(* C36: approvals of non-hard signals and the cooldown.                    *)
(***************************************************************************)
\* The call in reeval had a context and approved a signal that is not a
\* hard failure, under a cooldown.
SoftApproval ==
    /\ CallWithContext
    /\ reeval.result.should_reevaluate
    /\ reeval.signal \notin HardFailureSignals
    /\ reeval.context.hysteresis.cooldown_seconds > 0

\* C36: the state threaded through the calls holds the time of the most
\* recent approved call, of a hard failure or not, as last_switch_ts; a
\* signal that is not a hard failure is approved only when at least
\* cooldown_seconds have passed since then, so it is at least
\* cooldown_seconds after the previous approval of such a signal.
C36_SoftApprovalsCooldownApart ==
    /\ rt_state.last_switch_ts = switched.last
    /\ switched.soft <= switched.last
    /\ SoftApproval =>
          /\ SuppliedState.last_switch_ts # NoTs =>
                reeval.context.now_ts - SuppliedState.last_switch_ts
                    >= reeval.context.hysteresis.cooldown_seconds * TicksPerSecond
          /\ switched.prev_soft # NoTs =>
                reeval.context.now_ts - switched.prev_soft
                    >= reeval.context.hysteresis.cooldown_seconds * TicksPerSecond
          /\ switched.soft = reeval.context.now_ts

\* A signal that is not a hard failure is approved exactly cooldown_seconds
\* after the approval of the one before it.
C36_Witness ==
    /\ SoftApproval
    /\ switched.prev_soft # NoTs
    /\ SuppliedState.last_switch_ts = switched.prev_soft
    /\ reeval.context.now_ts - switched.prev_soft
          = reeval.context.hysteresis.cooldown_seconds * TicksPerSecond

\* The most recent switch came from a hard failure inside the cooldown of
\* an approved signal; the next approval waits for the hard failure's
\* cooldown.
C36_WitnessAfterHardFailure ==
    /\ SoftApproval
    /\ switched.prev_soft # NoTs
    /\ SuppliedState.last_switch_ts > switched.prev_soft
    /\ reeval.context.now_ts - SuppliedState.last_switch_ts
          = reeval.context.hysteresis.cooldown_seconds * TicksPerSecond

(***************************************************************************)
(* C37: the flap limit without hard failures.                              *)
(***************************************************************************)
\* The caller's hysteresis limits flapping.
FlapLimited ==
    hysteresis.flap_threshold > 0 /\ hysteresis.flap_window_seconds > 0

\* The switch times of a list that lie inside the flap window ending at
\* now_ts.
InsideWindow(timestamps, now_ts) ==
    {i \in 1..Len(timestamps) :
        timestamps[i] >= now_ts - hysteresis.flap_window_seconds * TicksPerSecond}

\* C37: from the empty state, with the returned state threaded, a clock
\* that never goes back, flap_threshold > 0, flap_window_seconds > 0 and no
\* hard-failure signal, no returned state holds more than flap_threshold
\* switch_timestamps, and all of them lie inside the flap window of the
\* call that returned them.
C37_AtMostThresholdSwitches ==
    FlapLimited =>
        /\ Len(rt_state.switch_timestamps) <= hysteresis.flap_threshold
        /\ CallWithContext =>
              /\ Len(reeval.result.state.switch_timestamps)
                    <= hysteresis.flap_threshold
              /\ Cardinality(InsideWindow(reeval.result.state.switch_timestamps,
                                          reeval.context.now_ts))
                    = Len(reeval.result.state.switch_timestamps)

\* flap_threshold switches are inside the window, and the next signal is
\* suppressed for flapping.
C37_Witness ==
    /\ FlapLimited
    /\ CallWithContext
    /\ reeval.signal \in SoftSignals
    /\ ~reeval.result.should_reevaluate
    /\ reeval.result.state.flap_suppression_count > 0
    /\ Len(reeval.result.state.switch_timestamps) = hysteresis.flap_threshold

\* A switch is approved again after an earlier switch has left the window.
C37_WitnessPruned ==
    /\ FlapLimited
    /\ CallWithContext
    /\ reeval.result.should_reevaluate
    /\ Len(SuppliedState.switch_timestamps) = hysteresis.flap_threshold
    /\ Len(reeval.result.state.switch_timestamps) = hysteresis.flap_threshold

(***************************************************************************)
(* C38: what the manager holds when ensure_service returns start-failed.   *)
(***************************************************************************)
\* The step ends the call of task c with the status start-failed.
ReturnsStartFailed(c) ==
    /\ call[c].pc # "done"
    /\ call'[c].pc = "done"
    /\ call'[c].status.action = "start-failed"

\* C38: when ensure_service returns start-failed, after the timeouts of all
\* attempts or after a failed spawn, the manager holds no handle and no
\* endpoint, current_process() is None, and every child the call spawned
\* has been handed to _terminate_process.
C38_StartFailedHoldsNothing ==
    [][\A c \in Callers :
          ReturnsStartFailed(c) =>
              /\ mgr'.process = NoPid
              /\ mgr'.endpoint = ""
              /\ current_process(mgr', children') = NoPid
              /\ call'[c].process = NoPid
              /\ call'[c].timeouts = call'[c].spawned
              /\ call'[c].terminated >= call'[c].spawned]_vars

\* start-failed after every attempt timed out, one of them a restart; the
\* lock is free again and no other call has started a child since.
C38_Witness ==
    \E c \in Callers :
        /\ Returned(c)
        /\ call[c].status.action = "start-failed"
        /\ call[c].status.reason = "startup-timeout"
        /\ call[c].spawned = 2
        /\ call[c].timeouts = 2
        /\ mgr.process = NoPid
        /\ mgr.endpoint = ""
        /\ lock = "free"

\* start-failed by a failed spawn in the attempt after a timeout whose
\* child outlived terminate(): the handle is cleared all the same.
C38_WitnessSpawnFailure ==
    \E c \in Callers :
        /\ Returned(c)
        /\ call[c].status.action = "start-failed"
        /\ call[c].status.reason \in SpawnFailedReasons
        /\ call[c].spawned = 1
        /\ call[c].timeouts = 1
        /\ mgr.process = NoPid
        /\ \E p \in Pids : children[p] = "alive"

(***************************************************************************)
(* C39: a spawn while an earlier child of the manager lives.               *)
(***************************************************************************)
LiveChildren == {p \in Pids : children[p] = "alive"}

\* C39: ensure_service spawns only when every child the manager owned
\* before has exited, so at most one child of the manager is alive.
C39_NoSpawnBesideLiveChild ==
    Cardinality(LiveChildren) <= 1

(***************************************************************************)
(* C40: every ensure_service call ends, and a waiting caller gets the      *)
(* lock.  SpecLocalFair is SpecLocal with the scheduling of the event      *)
(* loop.                                                                   *)
(***************************************************************************)
\* The call of task c is running.
Running(c) == call[c].pc \notin {"idle", "done"}

\* The lock is not handed out of turn: one task at most is the first
\* waiter, and a task waits behind another only while that one waits.
WaitersInOrder ==
    /\ Cardinality({c \in Callers : call[c].pc = "lock"}) <= 1
    /\ (\E c \in Callers : call[c].pc = "queued")
          => \E d \in Callers : call[d].pc = "lock"

\* The launches a call with the settings cfg can make.
LaunchesOf(cfg) == IF MayStart(cfg) THEN MaxAttempts(cfg) ELSE 0

\* The launches the running calls may still make.
LaunchesPlanned ==
    LET of(c) == IF Running(c) THEN LaunchesOf(call[c].cfg) ELSE 0
    IN  of("t1") + of("t2")

\* A call starts only when the launches counted so far, those of the
\* running calls and its own fit below MaxLaunches, so that no start loop
\* stops at the bound of the counter.
StartCallWithinBound(c, cfg) ==
    /\ mgr.launch_attempts + LaunchesPlanned + LaunchesOf(cfg) <= MaxLaunches
    /\ StartCall(c, cfg)

\* The steps of the call of task c after its first await.
CallStep(c) ==
    \/ \E healthy \in BOOLEAN : Probe1Done(c, healthy)
    \/ AcquireLock(c)
    \/ \E healthy \in BOOLEAN : Probe2Done(c, healthy)
    \/ \E outcome \in TerminateResults : ReapStaleDone(c, outcome)
    \/ \E healthy \in BOOLEAN : WaitProbeDone(c, healthy)
    \/ \E deadline_passed \in BOOLEAN : WaitSleepDone(c, deadline_passed)
    \/ \E outcome \in TerminateResults : ReapDone(c, outcome)

NextLocalFair ==
    \/ \E c \in Callers, cfg \in SettingsChoices : StartCallWithinBound(c, cfg)
    \/ \E c \in Callers : CallStep(c)
    \/ \E outcome \in TerminateResults : Shutdown(outcome)
    \/ \E c \in Callers : Return(c)
    \/ \E pid \in Pids : ChildExits(pid)

\* The event loop resumes every task whose await is over: a probe answers
\* within its timeout, _terminate_process waits at most twice 5 s, a
\* released lock wakes the waiter (weak fairness of the call's steps).  The
\* clock reaches the deadline of _wait_until_ready after finitely many
\* sleeps of one second (strong fairness of the sleep that ends past the
\* deadline).
FairLocal ==
    \A c \in Callers :
        /\ WF_vars(CallStep(c))
        /\ SF_vars(WaitSleepDone(c, TRUE))

SpecLocalFair == InitLocal /\ [][NextLocalFair]_vars /\ FairLocal

\* The spawn attempts of the call of task c so far.
SpawnAttempts(c) ==
    call[c].spawned + (IF SpawnFailed(c) THEN 1 ELSE 0)

AttemptsWithinRestarts ==
    \A c \in Callers : SpawnAttempts(c) <= call[c].cfg.local_max_restarts + 1

\* C40: every ensure_service call eventually returns a status, after at
\* most local_max_restarts + 1 spawn attempts, and a caller waiting for
\* the lock eventually acquires it.
C40_EveryCallReturnsStatus ==
    /\ []AttemptsWithinRestarts
    /\ []WaitersInOrder
    /\ \A c \in Callers :
          Running(c) ~> (Returned(c) /\ call[c].status.action # "raised")
    /\ \A c \in Callers :
          Waiting(call[c]) ~> (lock = c)

\* What holds of the code: every call eventually ends, with a status or
\* with the exception that left _terminate_process, after at most
\* local_max_restarts + 1 spawn attempts, and a caller waiting for the
\* lock eventually acquires it.
C40_EveryCallEnds ==
    /\ []AttemptsWithinRestarts
    /\ []WaitersInOrder
    /\ \A c \in Callers : Running(c) ~> Returned(c)
    /\ \A c \in Callers : Waiting(call[c]) ~> (lock = c)

\* A caller that waited for the lock has acquired it after the call that
\* held it ended by the exception of _terminate_process.
C40_WitnessLockAfterException ==
    \E c, d \in Callers :
        /\ c # d
        /\ lock = c
        /\ call[c].first_probe = "unhealthy"
        /\ Returned(d)
        /\ call[d].status.action = "raised"

\* The lock was released while a task waited for it, and before that task
\* ran the other task called again and queued behind it.
C40_WitnessQueued ==
    \E c, d \in Callers :
        /\ lock = "free"
        /\ call[c].pc = "lock"
        /\ call[d].pc = "queued"

====
